---- MODULE Spec2Model ----
(***************************************************************************)
(* Score pipeline of DataProcessorService (data-processor.service.ts):     *)
(* process() from the JSON read to the finished/error stage, with          *)
(* inferIdField, mergeData, identifySubjects, processInChunks, calcRanks,  *)
(* inferCombinations and calcCombinationRanks working on a heap of record  *)
(* objects.  Spec is one run of process() without roster; MergeSpec is the *)
(* identification, merge and subject detection stages on raw records and   *)
(* rosters of many shapes; LabelSpec is the combination stage on records   *)
(* with written labels; RankSpec is the ranking lines taken one calcRanks  *)
(* call at a time; ResetSpec is Spec with reset(); PairSpec is two         *)
(* interleaved runs of process().                                          *)
(***************************************************************************)
EXTENDS Integers, Sequences, FiniteSets, TLC

(***************************************************************************)
(* Bounds of the model.  CHUNK_SIZE is the batch size of processInChunks,  *)
(* 5000 in the source, scaled down so that cohorts of MaxRec records span  *)
(* several batches.                                                         *)
(***************************************************************************)
MaxRec == 3
CHUNK_SIZE == 1
\* the longest list of records the identity field is inferred from
MaxRaw == 2

(***************************************************************************)
(* JavaScript values: numbers, strings, arrays of strings, object          *)
(* references and undefined.                                                *)
(***************************************************************************)
Num(n) == [t |-> "num", n |-> n, s |-> "", a |-> <<>>]
Str(s) == [t |-> "str", n |-> 0, s |-> s, a |-> <<>>]
Arr(a) == [t |-> "arr", n |-> 0, s |-> "", a |-> a]
Ref(r) == [t |-> "obj", n |-> r, s |-> "", a |-> <<>>]
Undef == [t |-> "undef", n |-> 0, s |-> "", a |-> <<>>]

\* Number(v): a number, or NaN.  Of the strings of the model only the empty
\* one and the digits "1", "2", "3" are numeric.
ToNumber(v) ==
  CASE v.t = "num" -> [nan |-> FALSE, n |-> v.n]
    [] v.t = "str" ->
         CASE v.s = "" -> [nan |-> FALSE, n |-> 0]
           [] v.s = "1" -> [nan |-> FALSE, n |-> 1]
           [] v.s = "2" -> [nan |-> FALSE, n |-> 2]
           [] v.s = "3" -> [nan |-> FALSE, n |-> 3]
           [] OTHER -> [nan |-> TRUE, n |-> 0]
    [] v.t = "arr" -> IF v.a = <<>> THEN [nan |-> FALSE, n |-> 0]
                                    ELSE [nan |-> TRUE, n |-> 0]
    [] OTHER -> [nan |-> TRUE, n |-> 0]

\* Number(v) || 0
NumberOr0(v) == IF ToNumber(v).nan THEN 0 ELSE ToNumber(v).n

\* truthiness of a value, as in `row[explicitKey] && ...`
Truthy(v) ==
  CASE v.t = "num" -> v.n # 0
    [] v.t = "str" -> v.s # ""
    [] v.t = "undef" -> FALSE
    [] OTHER -> TRUE

(***************************************************************************)
(* A record object is its list of <<key, value>> pairs in insertion order. *)
(***************************************************************************)
Keys(row) == [p \in 1..Len(row) |-> row[p][1]]

Has(row, k) == \E p \in 1..Len(row) : row[p][1] = k

Get(row, k) ==
  LET at == {p \in 1..Len(row) : row[p][1] = k}
  IN  IF at = {} THEN Undef ELSE row[CHOOSE p \in at : TRUE][2]

Set(row, k, v) ==
  LET at == {p \in 1..Len(row) : row[p][1] = k}
  IN  IF at = {} THEN Append(row, <<k, v>>)
      ELSE [row EXCEPT ![CHOOSE p \in at : TRUE] = <<k, v>>]

\* `const x = v; ...F(x)...`: v is evaluated once, then F on its value
Bind(v, F(_)) == CHOOSE r \in {F(x) : x \in {v}} : TRUE

\* Array.prototype.find / filter over a sequence
RECURSIVE FindFirst(_, _, _)
FindFirst(seq, P(_), p) ==
  IF p > Len(seq) THEN Undef
  ELSE IF P(seq[p]) THEN Str(seq[p])
  ELSE FindFirst(seq, P, p + 1)

RECURSIVE Filter(_, _, _)
Filter(seq, P(_), p) ==
  IF p > Len(seq) THEN <<>>
  ELSE IF P(seq[p]) THEN <<seq[p]>> \o Filter(seq, P, p + 1)
  ELSE Filter(seq, P, p + 1)

RECURSIVE SumSeq(_, _, _)
SumSeq(seq, F(_), p) ==
  IF p > Len(seq) THEN 0 ELSE F(seq[p]) + SumSeq(seq, F, p + 1)

InSeq(seq, x) == \E p \in 1..Len(seq) : seq[p] = x

(***************************************************************************)
(* Names.  Field names are the English spellings the patterns of the       *)
(* source accept.  The letter codes of the combination definitions are     *)
(* written W, H, S, D, Z, L for the characters U+7269 (physics), U+5316    *)
(* (chemistry), U+751F (biology), U+5730 (geography), U+653F (politics),   *)
(* U+53F2 (history); classes "1B", "2B" are canonical class names.         *)
(* The regular expressions and keyword lists of the source are tabulated   *)
(* over the field names of the model.                                      *)
(***************************************************************************)
\* totalKeys = /(zongfen|total|score_sum)/i
totalKeys(k) == k \in {"total", "_rawTotal", "_assignedTotal"}

\* excludeKeywords = /(zongfen|total|score_sum|beizhu|zhuangtai|paiming|
\* xuhao|id|kaohao|xuehao|xingming|banji|nianji|_raw|class|grade|name)/i,
\* the Chinese words written in pinyin here
excludeKeywords(k) ==
  k \in {"_raw", "id", "name", "class", "grade", "student_id", "uid", "total",
         "name_zh", "class_zh", "grade_zh"}

\* excludeCombos: no field name of the model is a two-subject composite
excludeCombos(k) == k \in {}

\* small4Keywords.some(kw => s.toLowerCase().includes(kw))
small4Keywords(k) == k \in {"politics", "geography", "chemistry", "biology"}

\* comboKeywords.some(kw => s.toLowerCase().includes(kw))
comboKeywords(k) ==
  k \in {"politics", "geography", "chemistry", "biology", "physics", "history"}

\* subjectMap[Object.keys(subjectMap).find(k => s.toLowerCase().includes(k))]
subjectMap(k) ==
  CASE k = "physics" -> "W"
    [] k = "history" -> "L"
    [] k = "chemistry" -> "H"
    [] k = "biology" -> "S"
    [] k = "politics" -> "Z"
    [] k = "geography" -> "D"
    [] OTHER -> ""

\* combinationPattern = /(xuanke|zuhe|subjects|combination)/i
combinationPattern(k) == k \in {"combination", "_combinations"}

allowedCombinations == <<"WHS", "WHD", "WHZ", "ZLD">>

\* chars.join('')
RECURSIVE Join(_)
Join(chars) ==
  IF chars = <<>> THEN ""
  ELSE Join(SubSeq(chars, 1, Len(chars) - 1)) \o chars[Len(chars)]

\* the elective labels the inputs hold, as characters: the letter codes of
\* a definition in some order with one delimiter text between them, and
\* labels of other letters.  ";" stands for the full-width comma U+FF0C,
\* "'" for the list separator U+3001, "-" is a character that is no
\* delimiter
Permutations3(s) ==
  {[q \in 1..3 |-> s[f[q]]] :
     f \in {g \in [1..3 -> 1..3] : \A i, j \in 1..3 : i # j => g[i] # g[j]}}

DelimiterTexts ==
  {<<>>, <<"+">>, <<",">>, <<" ">>, <<";">>, <<"'">>, <<",", " ">>, <<"-">>}

Delimited(letters, d) ==
  IF Len(letters) = 0 THEN <<>>
  ELSE <<letters[1]>>
         \o [q \in 1..((Len(letters) - 1) * (Len(d) + 1)) |->
               IF (q - 1) % (Len(d) + 1) < Len(d)
               THEN d[((q - 1) % (Len(d) + 1)) + 1]
               ELSE letters[((q - 1) \div (Len(d) + 1)) + 2]]

LetterTexts ==
  UNION {Permutations3(s) : s \in {<<"W", "H", "S">>, <<"W", "H", "D">>,
                                    <<"W", "H", "Z">>, <<"Z", "L", "D">>}}
    \cup {<<"W", "H">>, <<"W", "W", "H">>, <<"W", "H", "S", "D">>,
          <<"S", "H", "W", "W">>, <<"L", "Z">>, <<"D">>}

LabelTexts == {Delimited(l, d) : l \in LetterTexts, d \in DelimiterTexts}

CharsOfLabel == [s \in {Join(c) : c \in LabelTexts} |->
                   CHOOSE c \in LabelTexts : Join(c) = s]

\* str.split('') for the combination strings and labels of the model
Split(str) ==
  CASE str = "WHS" -> <<"W", "H", "S">>
    [] str = "WHD" -> <<"W", "H", "D">>
    [] str = "WHZ" -> <<"W", "H", "Z">>
    [] str = "ZLD" -> <<"Z", "L", "D">>
    [] str = "D+WH" -> <<"D", "+", "W", "H">>
    [] str = "WH" -> <<"W", "H">>
    [] OTHER -> IF str \in DOMAIN CharsOfLabel THEN CharsOfLabel[str] ELSE <<>>

\* UTF-16 code unit of a character, the order of Array.prototype.sort()
CharCode(c) ==
  CASE c = "W" -> 29289
    [] c = "H" -> 21270
    [] c = "S" -> 29983
    [] c = "D" -> 22320
    [] c = "Z" -> 25919
    [] c = "L" -> 21490
    [] c = "+" -> 43
    [] c = "-" -> 45
    [] OTHER -> 0

(***************************************************************************)
(* inferIdField: the identity field of a list of records.                  *)
(***************************************************************************)
\* commonIdPatterns[q - 1].test(k) for the eight patterns, in their order:
\* /kaohao/i, /xuehao/i, /ID/i, /^id$/i, /student_id/i, /uid/i, /no/i,
\* /code/i (the first two are written in Chinese characters in the source;
\* no field name of the model holds them)
NumIdPatterns == 8

commonIdPatterns(q, k) ==
  CASE q = 3 -> k \in {"id", "student_id", "uid"}
    [] q = 4 -> k = "id"
    [] q = 5 -> k = "student_id"
    [] q = 6 -> k = "uid"
    [] q = 7 -> k \in {"exam_no", "seat_no"}
    [] q = 8 -> k = "code"
    [] OTHER -> FALSE

\* variant: the first key, in schema order, that any pattern accepts
IdByPattern_KeyOrder(keys, q) ==
  LET Test(k) == \E r \in q..NumIdPatterns : commonIdPatterns(r, k)
  IN  FindFirst(keys, Test, 1)

\* for (const pattern of commonIdPatterns) { found = keys.find(...); if
\* (found) return found }, from pattern q; Undef when the loop falls through
RECURSIVE IdByPattern(_, _)
IdByPattern(keys, q) ==
  IF q > NumIdPatterns THEN Undef
  ELSE LET Test(k) == commonIdPatterns(q, k)
       IN  Bind(FindFirst(keys, Test, 1), LAMBDA found :
             IF Truthy(found) THEN found ELSE IdByPattern(keys, q + 1))

\* typeof v
TypeOf(v) ==
  CASE v.t = "num" -> "number"
    [] v.t = "str" -> "string"
    [] v.t = "undef" -> "undefined"
    [] OTHER -> "object"

\* for (const key of keys) { ... }, from key number p: the values of the key
\* over all records are pairwise different (a Set as large as the list)
\* and the value of the first record is a string or a number; keys[0] when
\* the loop falls through
RECURSIVE IdByValues(_, _, _)
IdByValues(data, keys, p) ==
  IF p > Len(keys) THEN (IF Len(keys) = 0 THEN "" ELSE keys[1])
  ELSE LET values == [r \in 1..Len(data) |-> Get(data[r], keys[p])]
           uniqueValues == {values[r] : r \in 1..Len(data)}
       IN  IF /\ Cardinality(uniqueValues) = Len(data)
              /\ TypeOf(values[1]) \in {"string", "number"}
           THEN keys[p]
           ELSE IdByValues(data, keys, p + 1)

inferIdField(data) ==
  IF Len(data) = 0 THEN ""
  ELSE Bind(Keys(data[1]), LAMBDA keys :
         Bind(IdByPattern(keys, 1), LAMBDA found :
           IF found # Undef THEN found.s ELSE IdByValues(data, keys, 1)))

(***************************************************************************)
(* identifySubjects: subjects and small4Subjects from the first record.    *)
(***************************************************************************)
IsSubjectKey(record, key, idF) ==
  LET val == Get(record, key)
  IN  /\ key # idF
      /\ ~(ToNumber(val).nan \/ (val.t = "str" /\ val.s = ""))
      /\ ~excludeKeywords(key)
      /\ ~excludeCombos(key)

identifySubjects(data, idF) ==
  LET IsSubj(k) == IsSubjectKey(data[1], k, idF)
  IN  Bind(Filter(Keys(data[1]), IsSubj, 1),
           LAMBDA subj : [subjects |-> subj,
                          small4Subjects |-> Filter(subj, small4Keywords, 1)])

(***************************************************************************)
(* processInChunks: statistics, scoring of one record.                     *)
(***************************************************************************)
\* variant: records without a numeric value are left out of min and max
StatsOf_Present(data, subj) ==
  Bind({ToNumber(Get(data[p], subj)).n :
          p \in {q \in 1..Len(data) : ~ToNumber(Get(data[q], subj)).nan}},
       LAMBDA present :
         LET values == IF present = {} THEN {0} ELSE present
         IN  [min |-> CHOOSE m \in values : \A v \in values : m <= v,
              max |-> CHOOSE m \in values : \A v \in values : m >= v])

\* stats[subj] = { min: Math.min(...values), max: Math.max(...values) } with
\* values = data.map(d => Number(d[subj]) || 0)
StatsOf(data, subj) ==
  Bind({NumberOr0(Get(data[p], subj)) : p \in 1..Len(data)},
       LAMBDA values :
         [min |-> CHOOSE m \in values : \A v \in values : m <= v,
          max |-> CHOOSE m \in values : \A v \in values : m >= v])

\* variant: Math.floor in place of Math.round
MathRound_Floor(num, den) == num \div den

\* Math.round(num / den) for den > 0: the nearest integer, halves upwards
MathRound(num, den) == (2 * num + den) \div (2 * den)

\* Math.round(40 + ((s - min) / (max - min)) * 60), or s when max = min
Assigned(s, st) ==
  IF st.max # st.min
  THEN MathRound(40 * (st.max - st.min) + (s - st.min) * 60, st.max - st.min)
  ELSE s

\* the first key of the record matching totalKeys
ProvidedTotalKey(row) == FindFirst(Keys(row), totalKeys, 1)

\* variant: tolerance test `< 2` in place of `<= 2`
RawTotalOf_Strict(row, subj) ==
  LET V(s) == NumberOr0(Get(row, s))
  IN  Bind(SumSeq(subj, V, 1), LAMBDA calculatedTotal :
      Bind(ProvidedTotalKey(row), LAMBDA providedTotalKey :
      Bind(ToNumber(Get(row, providedTotalKey.s)), LAMBDA pt :
        LET diff == IF pt.n - calculatedTotal < 0 THEN calculatedTotal - pt.n
                                                  ELSE pt.n - calculatedTotal
        IN  IF providedTotalKey # Undef /\ ~pt.nan /\ diff < 2 THEN pt.n
            ELSE calculatedTotal)))

\* lines 467-474: the computed sum, or the declared total within tolerance
RawTotalOf(row, subj) ==
  LET V(s) == NumberOr0(Get(row, s))
  IN  Bind(SumSeq(subj, V, 1), LAMBDA calculatedTotal :
      Bind(ProvidedTotalKey(row), LAMBDA providedTotalKey :
      Bind(ToNumber(Get(row, providedTotalKey.s)), LAMBDA pt :
        LET diff == IF pt.n - calculatedTotal < 0 THEN calculatedTotal - pt.n
                                                  ELSE pt.n - calculatedTotal
        IN  IF providedTotalKey # Undef /\ ~pt.nan /\ diff <= 2 THEN pt.n
            ELSE calculatedTotal)))

\* small4.forEach(subj => { row[`assigned_${subj}`] = assigned; ... })
RECURSIVE AssignSmall4(_, _, _, _)
AssignSmall4(row, small4, st, p) ==
  IF p > Len(small4) THEN row
  ELSE Bind(Set(row, "assigned_" \o small4[p],
                Num(Assigned(NumberOr0(Get(row, small4[p])), st[small4[p]]))),
            LAMBDA row2 : AssignSmall4(row2, small4, st, p + 1))

\* variant: the assigned total is the sum of the assigned values alone
AssignedTotalOf_AssignedOnly(rawTotal, rawSmall4Sum, assignedSmall4Sum) ==
  assignedSmall4Sum

\* rawTotal - rawSmall4Sum + assignedSmall4Sum
AssignedTotalOf(rawTotal, rawSmall4Sum, assignedSmall4Sum) ==
  (rawTotal - rawSmall4Sum) + assignedSmall4Sum

\* variant: the assigned total starts from the computed sum of the
\* subjects, not from rawTotal
ScoreRow_FromCalculated(row, subj, small4, st) ==
  Bind(RawTotalOf(row, subj), LAMBDA rawTotal :
  Bind(Set(row, "_rawTotal", Num(rawTotal)), LAMBDA row1 :
  Bind(AssignSmall4(row1, small4, st, 1), LAMBDA row2 :
    LET V(s) == NumberOr0(Get(row1, s))
        A(s) == Get(row2, "assigned_" \o s).n
    IN  Set(row2, "_assignedTotal",
            Num(AssignedTotalOf(SumSeq(subj, V, 1), SumSeq(small4, V, 1),
                                SumSeq(small4, A, 1)))))))

\* the body of the inner loop of processInChunks for one record
ScoreRow(row, subj, small4, st) ==
  Bind(RawTotalOf(row, subj), LAMBDA rawTotal :
  Bind(Set(row, "_rawTotal", Num(rawTotal)), LAMBDA row1 :
  Bind(AssignSmall4(row1, small4, st, 1), LAMBDA row2 :
    LET V(s) == NumberOr0(Get(row1, s))
        A(s) == Get(row2, "assigned_" \o s).n
    IN  Set(row2, "_assignedTotal",
            Num(AssignedTotalOf(rawTotal, SumSeq(small4, V, 1),
                                SumSeq(small4, A, 1)))))))

(***************************************************************************)
(* calcRanks.  Arrays hold object identities (indices into the heap h), so *)
(* that a record reached through two arrays is one object.                 *)
(***************************************************************************)
\* data.sort((a, b) => V(b) - V(a)): stable, descending
InsertDesc(sorted, x, V(_)) ==
  LET pos == Cardinality({q \in 1..Len(sorted) : V(sorted[q]) >= V(x)})
  IN  SubSeq(sorted, 1, pos) \o <<x>> \o SubSeq(sorted, pos + 1, Len(sorted))

RECURSIVE SortDesc(_, _, _)
SortDesc(arr, V(_), n) ==
  IF n = 0 THEN <<>>
  ELSE Bind(SortDesc(arr, V, n - 1),
            LAMBDA sorted : InsertDesc(sorted, arr[n], V))

\* variant: ranks renumbered without gaps (rank = rank + 1)
NextRank_Dense(h, arr, key, p, rank) ==
  IF p > 1 /\ NumberOr0(Get(h[arr[p]], key)) < NumberOr0(Get(h[arr[p - 1]], key))
  THEN rank + 1
  ELSE rank

\* the rank of position p (1-based), given the rank of position p - 1
NextRank(h, arr, key, p, rank) ==
  IF p > 1 /\ NumberOr0(Get(h[arr[p]], key)) < NumberOr0(Get(h[arr[p - 1]], key))
  THEN p
  ELSE rank

RECURSIVE RankLoop(_, _, _, _, _, _)
RankLoop(h, arr, key, rankKey, p, rank) ==
  IF p > Len(arr) THEN h
  ELSE Bind(NextRank(h, arr, key, p, rank), LAMBDA r :
       Bind([h EXCEPT ![arr[p]] = Set(@, rankKey, Num(r))], LAMBDA h2 :
            RankLoop(h2, arr, key, rankKey, p + 1, r)))

calcRanks(st, key, rankKey) ==
  LET V(x) == NumberOr0(Get(st.h[x], key))
  IN  Bind(SortDesc(st.arr, V, Len(st.arr)), LAMBDA sorted :
           [h |-> RankLoop(st.h, sorted, key, rankKey, 1, 1), arr |-> sorted])

\* variant: the assigned values of the rebasing subjects are not ranked
RECURSIVE RankSubjects_RawOnly(_, _, _, _, _)
RankSubjects_RawOnly(st, subj, small4, prefix, p) ==
  IF p > Len(subj) THEN st
  ELSE Bind(calcRanks(st, subj[p], prefix \o "_" \o subj[p]), LAMBDA st1 :
            RankSubjects_RawOnly(st1, subj, small4, prefix, p + 1))

\* subjects.forEach(s => { calcRanks(rows, s, ...); if (small4.includes(s))
\* calcRanks(rows, `assigned_${s}`, ...) }) for prefix "yearRank" (the
\* cohort) or "classRank" (one class)
RECURSIVE RankSubjects(_, _, _, _, _)
RankSubjects(st, subj, small4, prefix, p) ==
  IF p > Len(subj) THEN st
  ELSE Bind(calcRanks(st, subj[p], prefix \o "_" \o subj[p]), LAMBDA st1 :
       Bind(IF InSeq(small4, subj[p])
            THEN calcRanks(st1, "assigned_" \o subj[p],
                           prefix \o "_assigned_" \o subj[p])
            ELSE st1, LAMBDA st2 :
            RankSubjects(st2, subj, small4, prefix, p + 1)))

\* the calcRanks calls of processInChunks on one array
RankArray(st, subj, small4, prefix) ==
  Bind(calcRanks(st, "_rawTotal", prefix \o "_raw"), LAMBDA st1 :
  Bind(calcRanks(st1, "_assignedTotal", prefix \o "_assigned"), LAMBDA st2 :
       RankSubjects(st2, subj, small4, prefix, 1)))

\* byClass: the class values in order of first appearance, and the members
\* of one class in array order
RECURSIVE ClassesOf(_, _, _)
ClassesOf(h, arr, p) ==
  IF p = 0 THEN <<>>
  ELSE Bind(ClassesOf(h, arr, p - 1), LAMBDA before :
         LET c == Get(h[arr[p]], "class")
         IN  IF InSeq(before, c) THEN before ELSE Append(before, c))

\* variant: every class list holds the whole array
ClassMembers_All(h, arr, c) == arr

ClassMembers(h, arr, c) ==
  LET InClass(x) == Get(h[x], "class") = c IN Filter(arr, InClass, 1)

RECURSIVE RankClasses(_, _, _, _, _, _)
RankClasses(h, arr, classes, subj, small4, p) ==
  IF p > Len(classes) THEN h
  ELSE Bind([h |-> h, arr |-> ClassMembers(h, arr, classes[p])], LAMBDA st0 :
       Bind(RankArray(st0, subj, small4, "classRank"), LAMBDA st :
            RankClasses(st.h, arr, classes, subj, small4, p + 1)))

\* lines 504-524 of processInChunks
RankAll(h, arr, subj, small4) ==
  Bind(RankArray([h |-> h, arr |-> arr], subj, small4, "yearRank"), LAMBDA st :
  Bind(ClassesOf(st.h, st.arr, Len(st.arr)), LAMBDA classes :
       [h |-> RankClasses(st.h, st.arr, classes, subj, small4, 1),
        arr |-> st.arr]))

(***************************************************************************)
(* inferCombinations.  Strings being compared are kept as the sequences of *)
(* their characters.                                                       *)
(***************************************************************************)
\* variant: the comma is no delimiter
IsDelimiter_NoComma(c) == c \in {"+", " ", ";", "'"}

\* /[+,\s...]/g : the delimiter characters removed from a label (plus,
\* comma, white space, full-width comma, list separator)
IsDelimiter(c) == c \in {"+", ",", " ", ";", "'"}

\* chars.sort(): ascending by code unit
InsertAsc(sorted, c) ==
  LET pos == Cardinality({q \in 1..Len(sorted) : CharCode(sorted[q]) <= CharCode(c)})
  IN  SubSeq(sorted, 1, pos) \o <<c>> \o SubSeq(sorted, pos + 1, Len(sorted))

RECURSIVE SortChars(_, _)
SortChars(chars, n) ==
  IF n = 0 THEN <<>>
  ELSE Bind(SortChars(chars, n - 1), LAMBDA sorted : InsertAsc(sorted, chars[n]))

normalizeCombinationString(str) ==
  IF str = "" THEN <<"unknown">>
  ELSE LET NotDelim(c) == ~IsDelimiter(c)
       IN  Bind(Filter(Split(str), NotDelim, 1),
                LAMBDA clean : SortChars(clean, Len(clean)))

\* String(v) for the label values of the model
ToStr(v) == IF v.t = "str" THEN v.s ELSE ""

\* Strategy 1: the allowed combinations equal to the normalized label
ExplicitMatches(row, explicitKey) ==
  IF explicitKey # Undef /\ Truthy(Get(row, explicitKey.s))
  THEN Bind(normalizeCombinationString(ToStr(Get(row, explicitKey.s))),
            LAMBDA explicitVal :
              LET Matches(allowed) ==
                    explicitVal = SortChars(Split(allowed), Len(Split(allowed)))
              IN  Filter(allowedCombinations, Matches, 1))
  ELSE <<>>

\* chars.map(char => potentialSubjects.find(s => subjectMap(s) === char))
RequiredSubjectKeys(allowed, potentialSubjects) ==
  LET chars == Split(allowed)
  IN  [q \in 1..Len(chars) |->
         LET MapsTo(s) == subjectMap(s) # "" /\ subjectMap(s) = chars[q]
         IN  FindFirst(potentialSubjects, MapsTo, 1)]

\* variant: a score of 0 counts as present (val >= 0)
Qualifies_NonNegative(row, allowed, potentialSubjects) ==
  LET req == RequiredSubjectKeys(allowed, potentialSubjects)
  IN  /\ \A q \in 1..Len(req) : req[q] # Undef
      /\ \A q \in 1..Len(req) :
            LET val == ToNumber(Get(row, req[q].s))
            IN  ~val.nan /\ val.n >= 0

\* Strategy 2: every required key resolved and every score a number > 0
Qualifies(row, allowed, potentialSubjects) ==
  LET req == RequiredSubjectKeys(allowed, potentialSubjects)
  IN  /\ \A q \in 1..Len(req) : req[q] # Undef
      /\ \A q \in 1..Len(req) :
            LET val == ToNumber(Get(row, req[q].s))
            IN  ~val.nan /\ val.n > 0

CombinationsOf(row, explicitKey, potentialSubjects) ==
  Bind(ExplicitMatches(row, explicitKey), LAMBDA matchedCombos :
    LET Inferred(allowed) == Qualifies(row, allowed, potentialSubjects)
    IN  IF Len(matchedCombos) = 0
        THEN Filter(allowedCombinations, Inferred, 1)
        ELSE matchedCombos)

\* for (const row of data) { ...; row._combinations = matchedCombos }
RECURSIVE CombinationsLoop(_, _, _, _, _)
CombinationsLoop(h, data, explicitKey, potentialSubjects, p) ==
  IF p > Len(data) THEN h
  ELSE Bind([h EXCEPT ![data[p]] =
               Set(@, "_combinations",
                   Arr(CombinationsOf(@, explicitKey, potentialSubjects)))],
            LAMBDA h2 :
              CombinationsLoop(h2, data, explicitKey, potentialSubjects, p + 1))

inferCombinations(h, data, subj) ==
  Bind(FindFirst(Keys(h[data[1]]), combinationPattern, 1), LAMBDA explicitKey :
  Bind(Filter(subj, comboKeywords, 1), LAMBDA potentialSubjects :
       CombinationsLoop(h, data, explicitKey, potentialSubjects, 1)))

(***************************************************************************)
(* calcCombinationRanks.  Its four inline sort-and-walk loops are the loop *)
(* of calcRanks on the keys _rawTotal and _assignedTotal.                  *)
(***************************************************************************)
\* d._combinations && d._combinations.includes(combo)
HoldsCombo(row, combo) ==
  Truthy(Get(row, "_combinations")) /\ InSeq(Get(row, "_combinations").a, combo)

\* variant: the array is not filtered by combination
ComboStudents_All(h, arr, combo) == arr

ComboStudents(h, arr, combo) ==
  LET Holds(x) == HoldsCombo(h[x], combo) IN Filter(arr, Holds, 1)

\* the raw and the assigned loop for one combination on one array
ComboRank(h, arr, combo, prefix) ==
  Bind([h |-> h, arr |-> ComboStudents(h, arr, combo)], LAMBDA st0 :
  Bind(calcRanks(st0, "_rawTotal", prefix \o combo \o "_raw"), LAMBDA st1 :
       calcRanks(st1, "_assignedTotal", prefix \o combo \o "_assigned").h))

RECURSIVE ComboRanks(_, _, _, _)
ComboRanks(h, arr, prefix, p) ==
  IF p > Len(allowedCombinations) THEN h
  ELSE Bind(ComboRank(h, arr, allowedCombinations[p], prefix), LAMBDA h2 :
            ComboRanks(h2, arr, prefix, p + 1))

RECURSIVE ComboClassRanks(_, _, _, _)
ComboClassRanks(h, arr, classes, p) ==
  IF p > Len(classes) THEN h
  ELSE Bind(ClassMembers(h, arr, classes[p]), LAMBDA classStudents :
       Bind(ComboRanks(h, classStudents, "classRank_combo_", 1), LAMBDA h2 :
            ComboClassRanks(h2, arr, classes, p + 1)))

calcCombinationRanks(h, data) ==
  Bind(ComboRanks(h, data, "gradeRank_combo_", 1), LAMBDA h1 :
  Bind(ClassesOf(h1, data, Len(data)), LAMBDA classes :
       ComboClassRanks(h1, data, classes, 1)))

(***************************************************************************)
(* mergeData: one merged record per raw record, overlaid with the roster   *)
(* record of the same identity.                                            *)
(***************************************************************************)
\* namePattern = /(xingming|name|xm)/i, classPattern = /(banji|class|bj|bjmc)/i,
\* gradePattern = /(nianji|grade|nj)/i; name_zh, class_zh and grade_zh are
\* the keys the source writes in Chinese characters
namePattern(k) == k \in {"name", "xm", "name_zh"}

classPattern(k) == k \in {"class", "bj", "class_zh"}

gradePattern(k) == k \in {"grade", "nj", "grade_zh"}

\* String(v)
StringOf(v) ==
  CASE v.t = "num" -> ToString(v.n)
    [] v.t = "str" -> v.s
    [] v.t = "undef" -> "undefined"
    [] OTHER -> "[object Object]"

(***************************************************************************)
(* normalizeClassName.  A class name is written with one ASCII character   *)
(* for every character of the source: "B" the class suffix (U+73ED), "J"   *)
(* the character after it in the two-character suffix (U+7EA7), "G" a      *)
(* school-stage character (one of the three of the first grade pattern),   *)
(* "y" a Chinese numeral (one to six), "N" the year character (U+5E74),    *)
(* "(" ")" "[" "]" the eight bracket characters, " " white space; digits   *)
(* are themselves.  "unclassified" is the three-character sentinel, whose  *)
(* characters no pattern of the function matches.                          *)
(***************************************************************************)
\* the spellings of class names the inputs hold: a grade-level token, the
\* inner text in brackets or not, white space, a class suffix
GradeTokens == {<<>>, <<"G", "y">>, <<"y", "N", "J">>}

InnerTexts == {<<>>, <<"1">>, <<"2">>, <<"y">>}

BracketPairs == {<<"", "">>, <<"(", ")">>, <<"[", "]">>}

SuffixTexts == {<<>>, <<"B">>, <<"B", "J">>}

SpacePlaces == 0..3

Spelling == [grade : GradeTokens, inner : InnerTexts, br : BracketPairs,
             ws : SpacePlaces, suffix : SuffixTexts]

Space(sp, place) == IF sp.ws = place THEN <<" ">> ELSE <<>>

Bracket(c) == IF c = "" THEN <<>> ELSE <<c>>

\* the characters of a spelling
Render(sp) ==
  Space(sp, 1) \o sp.grade \o Bracket(sp.br[1]) \o sp.inner
    \o Bracket(sp.br[2]) \o Space(sp, 2) \o sp.suffix \o Space(sp, 3)

ClassSpellings == {Render(sp) : sp \in Spelling}

\* str.split(''): the characters of the strings the class fields hold; a
\* string of no spelling is text that holds none of the special characters
CharsOfSpelled == [s \in {Join(c) : c \in ClassSpellings} |->
                     CHOOSE c \in ClassSpellings : Join(c) = s]

ClassChars(str) ==
  IF str = "" THEN <<>>
  ELSE IF str \in DOMAIN CharsOfSpelled THEN CharsOfSpelled[str]
  ELSE <<str>>

\* /[()...\[\]...]/g : the bracket characters
IsBracket(c) == c \in {"(", ")", "[", "]"}

\* /\s+/g
IsWhitespace(c) == c = " "

\* variant: every trailing suffix character is removed
StripSuffix_All(str) ==
  LET n == Len(str)
      keep == {q \in 0..n : \A r \in (q + 1)..n : str[r] \in {"B", "J"}}
  IN  SubSeq(str, 1, CHOOSE q \in keep : \A r \in keep : q <= r)

\* str.replace(/BJ?$/, ''): one trailing class suffix
StripSuffix(str) ==
  LET n == Len(str)
  IN  IF n >= 2 /\ str[n - 1] = "B" /\ str[n] = "J" THEN SubSeq(str, 1, n - 2)
      ELSE IF n >= 1 /\ str[n] = "B" THEN SubSeq(str, 1, n - 1)
      ELSE str

\* the number of characters gradePrefixes[q] matches at the start of str,
\* 0 when it does not match: /^(G)[y]/ and /^[y]+NJ/
GradePrefixLen(q, str) ==
  LET n == Len(str)
      run == CHOOSE m \in 0..n :
               /\ \A r \in 1..m : str[r] = "y"
               /\ (m < n => str[m + 1] # "y")
  IN  IF q = 1
      THEN (IF n >= 2 /\ str[1] = "G" /\ str[2] = "y" THEN 2 ELSE 0)
      ELSE (IF run >= 1 /\ n >= run + 2 /\ str[run + 1] = "N"
                /\ str[run + 2] = "J"
            THEN run + 2 ELSE 0)

\* variant: the prefix is removed also when nothing remains
StripGrade_Always(q, str) ==
  SubSeq(str, GradePrefixLen(q, str) + 1, Len(str))

\* if (prefix.test(str)) { const replaced = str.replace(prefix, '');
\*                         if (replaced.length > 0) str = replaced; }
StripGrade(q, str) ==
  LET replaced == SubSeq(str, GradePrefixLen(q, str) + 1, Len(str))
  IN  IF GradePrefixLen(q, str) > 0 /\ Len(replaced) > 0 THEN replaced
      ELSE str

normalizeClassName(name) ==
  IF ~Truthy(name) THEN "unclassified"
  ELSE LET Kept(c) == ~IsBracket(c) /\ ~IsWhitespace(c)
       IN  Bind(Filter(ClassChars(StringOf(name)), Kept, 1), LAMBDA s1 :
           Bind(StripSuffix(s1), LAMBDA s2 :
           Bind(StripGrade(2, StripGrade(1, s2)), LAMBDA s3 :
             IF Len(s3) = 0 THEN "unclassified"
             ELSE Join(Append(s3, "B")))))

\* { ...obj, ...src }: the properties of src from number p, set in order
RECURSIVE Spread(_, _, _)
Spread(obj, src, p) ==
  IF p > Len(src) THEN obj
  ELSE Spread(Set(obj, src[p][1], src[p][2]), src, p + 1)

\* kbMap.get(idVal) || {}: the map holds, under String(row[kbId]), the last
\* roster record with that string; it is empty when kbId is ''
KbRowOf(kb, kbId, idVal) ==
  LET at == {r \in 1..Len(kb) : StringOf(Get(kb[r], kbId)) = idVal}
  IN  IF kbId = "" \/ at = {} THEN <<>>
      ELSE kb[CHOOSE r \in at : \A q \in at : q <= r]

\* a || b
OrElse(a, b) == IF Truthy(a) THEN a ELSE b

\* variant: the raw record is spread first, the resolved fields come last
MergedRow_ResolvedLast(row, r, kb, kbId, rawId) ==
  Bind(StringOf(Get(row, rawId)), LAMBDA idVal :
    Bind(Spread(row, KbRowOf(kb, kbId, idVal), 1), LAMBDA combined :
      LET keys == Keys(combined)
          KeyOf(found) == IF found = Undef THEN "" ELSE found.s
          nameKey == KeyOf(FindFirst(keys, namePattern, 1))
          classKey == KeyOf(FindFirst(keys, classPattern, 1))
          gradeKey == KeyOf(FindFirst(keys, gradePattern, 1))
      IN  Spread(row,
                 << <<"_raw", Ref(r)>>,
                    <<"id", Str(idVal)>>,
                    <<"name", OrElse(OrElse(Get(combined, nameKey),
                                            Get(row, "name_zh")),
                                     Str(idVal))>>,
                    <<"class", Str(normalizeClassName(
                                 OrElse(OrElse(Get(combined, classKey),
                                               Get(row, "class_zh")),
                                        Str("unclassified"))))>>,
                    <<"grade", OrElse(OrElse(Get(combined, gradeKey),
                                             Get(row, "grade_zh")),
                                      Str("unclassified"))>> >>,
                 1)))

\* the object mergeData builds for raw record number r
MergedRow(row, r, kb, kbId, rawId) ==
  Bind(StringOf(Get(row, rawId)), LAMBDA idVal :
    Bind(Spread(row, KbRowOf(kb, kbId, idVal), 1), LAMBDA combined :
      LET keys == Keys(combined)
          KeyOf(found) == IF found = Undef THEN "" ELSE found.s
          nameKey == KeyOf(FindFirst(keys, namePattern, 1))
          classKey == KeyOf(FindFirst(keys, classPattern, 1))
          gradeKey == KeyOf(FindFirst(keys, gradePattern, 1))
      IN  Spread(<< <<"_raw", Ref(r)>>,
                    <<"id", Str(idVal)>>,
                    <<"name", OrElse(OrElse(Get(combined, nameKey),
                                            Get(row, "name_zh")),
                                     Str(idVal))>>,
                    <<"class", Str(normalizeClassName(
                                 OrElse(OrElse(Get(combined, classKey),
                                               Get(row, "class_zh")),
                                        Str("unclassified"))))>>,
                    <<"grade", OrElse(OrElse(Get(combined, gradeKey),
                                             Get(row, "grade_zh")),
                                      Str("unclassified"))>> >>,
                 row, 1)))

\* raw.map(row => ...) over the first n raw records
RECURSIVE MergeRows(_, _, _, _, _)
MergeRows(raw, n, kb, kbId, rawId) ==
  IF n = 0 THEN <<>>
  ELSE Append(MergeRows(raw, n - 1, kb, kbId, rawId),
              MergedRow(raw[n], n, kb, kbId, rawId))

mergeData(raw, kb, rawId) ==
  Bind(IF Len(kb) > 0 THEN inferIdField(kb) ELSE "", LAMBDA kbId :
    MergeRows(raw, Len(raw), kb, kbId, rawId))

(***************************************************************************)
(* Inputs: the raw records of the JSON file, for three schemas.  A choice  *)
(* fixes the class and the fields of one record; Undef stands for a field  *)
(* the raw record does not have.                                           *)
(***************************************************************************)
Classes == {"1B", "2B"}

Schemas == {"A", "B", "C"}

Opt(k, v) == IF v = Undef THEN <<>> ELSE << <<k, v>> >>

\* A: chinese, chemistry (rebased), a declared total.  B: chinese, math, no
\* rebasing subject.  C: physics, chemistry, biology, geography and a
\* combination label ("D+WH" spells WHD, "WH" spells no combination).  In B the class of a record is free; in A and C the
\* classes alternate along the input ("alt").
Choice(class, f1, f2, f3) == [class |-> class, f1 |-> f1, f2 |-> f2, f3 |-> f3]

Choices(schema) ==
  CASE schema = "A" ->
         {Choice("alt", Num(3), ch, Undef) : ch \in {Undef, Num(1), Num(8)}}
           \cup {Choice("alt", Num(3), ch, Num(6)) : ch \in {Undef, Num(1), Num(8)}}
           \cup {Choice("alt", Num(3), Num(1), Str("absent"))}
    [] schema = "B" ->
         {Choice(c, Num(2), m, Undef) : c \in Classes, m \in {Num(1), Num(2)}}
           \cup {Choice(c, Str("absent"), Num(1), Undef) : c \in Classes}
    [] OTHER ->
         {Choice("alt", b, g, Undef) : b \in {Num(0), Num(1)}, g \in {Num(0), Num(1)}}
           \cup {Choice("alt", b, b, Str("D+WH")) : b \in {Num(0), Num(1)}}
           \cup {Choice("alt", Num(1), Num(0), Str("WH"))}

RawFields(schema, c) ==
  CASE schema = "A" ->
         Opt("chinese", c.f1) \o Opt("chemistry", c.f2) \o Opt("total", c.f3)
    [] schema = "B" -> Opt("chinese", c.f1) \o Opt("math", c.f2)
    [] OTHER ->
         Opt("physics", Num(2)) \o Opt("chemistry", Num(1)) \o Opt("biology", c.f1)
           \o Opt("geography", c.f2) \o Opt("combination", c.f3)

ClassAt(r, c) ==
  IF c.class = "alt" THEN (IF r % 2 = 1 THEN "1B" ELSE "2B") ELSE c.class

\* raw record number r of the parsed JSON list
RawRow(schema, r, c) ==
  << <<"student_id", Str("S" \o ToString(r))>>,
     <<"class", Str(ClassAt(r, c))>> >> \o RawFields(schema, c)

\* the parsed JSON list: its first n records
RECURSIVE RawList(_, _, _)
RawList(schema, choice, n) ==
  IF n = 0 THEN <<>>
  ELSE Append(RawList(schema, choice, n - 1), RawRow(schema, n, choice[n]))

(***************************************************************************)
(* State.  pc is the position of the one run of process(): idle, one of    *)
(* its suspension points, returned or thrown.  jsonFile is what the JSON   *)
(* file of the run holds: text that cannot be read, text that does not     *)
(* parse, a value that is not a list, the empty list, or a list of         *)
(* records.  rawData is the parsed JSON                                    *)
(* list, kbData the roster, idField the identity field of the raw records; *)
(* heap[x] is merged record object x (its _raw refers to rawData[x]),      *)
(* result the array of processInChunks, idx its loop variable i, scored[x] *)
(* the number of times the inner loop body ran for object x.  reported is  *)
(* the sequence of the progress values setProgress was called with.        *)
(* pending and byClass belong to the ranking lines of processInChunks      *)
(* taken one calcRanks call at a time (RankSpec): the calls still to make  *)
(* and the class arrays.  other is a second run of process() on the same   *)
(* service (PairSpec): its position and its locals.                        *)
(***************************************************************************)
VARIABLES pc, stage, progress, logs, heap, result, subjects, small4, stats,
          idx, scored, rawData, kbData, idField, jsonFile, reported,
          pending, byClass, other

vars == <<pc, stage, progress, logs, heap, result, subjects, small4, stats,
          idx, scored, rawData, kbData, idField, jsonFile, reported,
          pending, byClass, other>>

\* state of the specifications that split a step of process() or add a run
auxVars == <<pending, byClass, other>>

NoRun == [pc |-> "none"]

JsonFiles == {"unreadable", "syntax", "notArray", "empty", "list"}

inputVars == <<rawData, kbData, idField>>

dataVars == <<heap, result, subjects, small4, stats, idx, scored, inputVars>>

Init ==
  /\ pc = "idle"
  /\ stage = "idle"
  /\ progress = 0
  /\ logs = <<>>
  /\ heap = <<>>
  /\ result = <<>>
  /\ subjects = <<>>
  /\ small4 = <<>>
  /\ stats = <<>>
  /\ idx = 0
  /\ scored = <<>>
  /\ rawData = <<>>
  /\ kbData = <<>>
  /\ idField = ""
  /\ jsonFile = "none"
  /\ reported = <<>>
  /\ pending = <<>>
  /\ byClass = <<>>
  /\ other = NoRun

\* variant: the catch block logs and rethrows, the stage stays as it was
Catch_NoStage(lg, rp, message) ==
  /\ logs' = Append(lg, "error: " \o message)
  /\ reported' = rp
  /\ UNCHANGED <<stage, progress>>
  /\ pc' = "thrown"

\* the catch block of process(), entered with the log lg and an error of
\* the given message: log, setProgress('error', 0), rethrow
Catch(lg, rp, message) ==
  /\ logs' = Append(lg, "error: " \o message)
  /\ stage' = "error"
  /\ progress' = 0
  /\ reported' = Append(rp, 0)
  /\ pc' = "thrown"

\* variant: the empty list passes the check
IsNonEmptyArray_OrEmpty(file) == file \in {"empty", "list"}

\* Array.isArray(rawData) && rawData.length !== 0, by what the file holds
IsNonEmptyArray(file) == file = "list"

\* process() up to `await jsonFile.text()`
Process ==
  /\ pc = "idle"
  /\ jsonFile' \in JsonFiles
  /\ logs' = Append(logs, "start")
  /\ stage' = "reading"
  /\ progress' = 10
  /\ reported' = reported \o <<0, 10>>
  /\ pc' = "awaitJson"
  /\ UNCHANGED <<dataVars, auxVars>>

\* variant: every batch runs to the end of the array
BatchEnd_ToEnd(arr, i) == Len(arr)

\* end = Math.min(i + CHUNK_SIZE, result.length)
BatchEnd(arr, i) ==
  IF i + CHUNK_SIZE < Len(arr) THEN i + CHUNK_SIZE ELSE Len(arr)

\* for (let j = i; j < end; j++) { ... }: the inner loop from index j
RECURSIVE ScoreRows(_, _, _, _, _, _, _)
ScoreRows(h, arr, j, end, subj, sm4, st) ==
  IF j >= end THEN h
  ELSE Bind([h EXCEPT ![arr[j + 1]] = ScoreRow(@, subj, sm4, st)], LAMBDA h2 :
            ScoreRows(h2, arr, j + 1, end, subj, sm4, st))

\* variant: the records are ranked at the end of every batch
ScoreBatch_Ranked(h, arr, i, subj, sm4, st) ==
  Bind(ScoreRows(h, arr, i, BatchEnd(arr, i), subj, sm4, st), LAMBDA h1 :
    RankAll(h1, arr, subj, sm4).h)

\* variant: min and max are taken over the records of the batch
ScoreBatch_OwnStats(h, arr, i, subj, sm4, st) ==
  Bind([p \in 1..(BatchEnd(arr, i) - i) |-> h[arr[i + p]]], LAMBDA batch :
    Bind([s \in DOMAIN st |-> StatsOf(batch, s)], LAMBDA own :
      ScoreRows(h, arr, i, BatchEnd(arr, i), subj, sm4, own)))

\* one batch of the outer loop of processInChunks: records i .. end-1
ScoreBatch(h, arr, i, subj, sm4, st) ==
  ScoreRows(h, arr, i, BatchEnd(arr, i), subj, sm4, st)

BatchMembers(arr, i) ==
  LET end == BatchEnd(arr, i)
  IN  {arr[j + 1] : j \in i..(end - 1)}

\* process() from the end of processInChunks' loop to its next await:
\* ranking, combinations, combination ranks, then the watermark read or the
\* workbook and `await workbook.xlsx.writeBuffer()`
AfterLoop(h, arr, lg, rp, subj, sm4) ==
  \E ranked \in {RankAll(h, arr, subj, sm4)} :
    \E withCombos \in {inferCombinations(ranked.h, ranked.arr, subj)} :
      /\ heap' = calcCombinationRanks(withCombos, ranked.arr)
      /\ result' = ranked.arr
      /\ \E watermarkFile \in BOOLEAN :
           IF watermarkFile
           THEN /\ stage' = "watermark"
                /\ progress' = 70
                /\ reported' = Append(rp, 70)
                /\ logs' = lg \o <<"combinations", "comboRanks", "watermark">>
                /\ pc' = "awaitWatermark"
           ELSE /\ stage' = "finishing"
                /\ progress' = 95
                /\ reported' = rp \o <<80, 95>>
                /\ logs' = lg \o <<"combinations", "comboRanks", "sheets">>
                /\ pc' = "awaitWrite"

\* the loop of processInChunks from index i to its next await or its end
RunLoop(h, arr, i, lg, rp, sc, subj, sm4, st) ==
  \E h1 \in {ScoreBatch(h, arr, i, subj, sm4, st)} :
    /\ scored' = [x \in DOMAIN h |->
                    IF x \in BatchMembers(arr, i) THEN sc[x] + 1 ELSE sc[x]]
    /\ idx' = i + CHUNK_SIZE
    /\ IF i + CHUNK_SIZE < Len(arr)
       THEN /\ heap' = h1
            /\ result' = arr
            /\ stage' = (IF i = 0 THEN "scoring" ELSE stage)
            /\ progress' = (IF i = 0 THEN 50 ELSE progress)
            /\ reported' = rp
            /\ logs' = lg
            /\ pc' = "yield"
       ELSE AfterLoop(h1, arr, lg, rp, subj, sm4)

(***************************************************************************)
(* process(), lines 91-115, as a function of the raw records: the identity *)
(* field, the merged records, the subjects, and processInChunks run as one *)
(* batch over the array `order` of the merged records, then the            *)
(* combinations and their ranks.                                           *)
(***************************************************************************)
RunFrom(raw, order) ==
  Bind(inferIdField(raw), LAMBDA idF :
    Bind(mergeData(raw, <<>>, idF), LAMBDA merged :
      Bind(identifySubjects(merged, idF), LAMBDA cls :
        Bind([s \in {cls.small4Subjects[q] : q \in 1..Len(cls.small4Subjects)}
                |-> StatsOf(merged, s)], LAMBDA st :
          Bind(ScoreRows(merged, order, 0, Len(order), cls.subjects,
                         cls.small4Subjects, st), LAMBDA h1 :
            Bind(RankAll(h1, order, cls.subjects, cls.small4Subjects),
                 LAMBDA ranked :
              Bind(inferCombinations(ranked.h, ranked.arr, cls.subjects),
                   LAMBDA withCombos :
                [idField |-> idF,
                 subjects |-> cls.subjects,
                 heap |-> calcCombinationRanks(withCombos, ranked.arr)])))))))

\* `await jsonFile.text()` rejects, JSON.parse throws, or the parsed value
\* is not a non-empty array (lines 72-76)
JsonFailed ==
  /\ pc = "awaitJson"
  /\ \/ jsonFile \in {"unreadable", "syntax"} /\ Catch(logs, reported, jsonFile)
     \/ /\ jsonFile \in {"notArray", "empty"}
        /\ ~IsNonEmptyArray(jsonFile)
        /\ Catch(logs, reported, "not a non-empty array")
  /\ UNCHANGED <<dataVars, jsonFile, auxVars>>

\* lines 77-100 for the empty list, were it to pass the check of line 74:
\* inferIdField returns '', mergeData [], and identifySubjects throws a
\* TypeError on Object.keys(data[0])
EmptyLoaded ==
  /\ jsonFile = "empty"
  /\ Catch(logs \o <<"loaded", "idField">>, reported \o <<20, 30, 40>>,
           "TypeError")
  /\ UNCHANGED <<dataVars, jsonFile, auxVars>>

\* lines 77-106 with excelFile = null: a non-empty array was parsed; id
\* field, merge, subjects, then processInChunks up to its first await
ListLoaded ==
  /\ jsonFile = "list"
  /\ UNCHANGED <<jsonFile, auxVars>>
  /\ \E schema \in Schemas, n \in 1..MaxRec :
       \E choice \in [1..n -> Choices(schema)] :
         \E raw \in {RawList(schema, choice, n)} :
          \E idF \in {inferIdField(raw)} :
           \E mergedData \in {mergeData(raw, <<>>, idF)} :
            \E cls \in {identifySubjects(mergedData, idF)} :
             \E st \in {[s \in {cls.small4Subjects[q] :
                                   q \in 1..Len(cls.small4Subjects)} |->
                            StatsOf(mergedData, s)]} :
               /\ rawData' = raw
               /\ kbData' = <<>>
               /\ idField' = idF
               /\ subjects' = cls.subjects
               /\ small4' = cls.small4Subjects
               /\ stats' = st
               /\ RunLoop(mergedData, [r \in 1..n |-> r], 0,
                          logs \o <<"loaded", "idField", "subjects">>,
                          reported \o <<20, 30, 40, 50>>,
                          [r \in 1..n |-> 0],
                          cls.subjects, cls.small4Subjects, st)

JsonLoaded ==
  /\ pc = "awaitJson"
  /\ jsonFile \in {"empty", "list"}
  /\ IsNonEmptyArray(jsonFile)
  /\ IF jsonFile = "empty" THEN EmptyLoaded ELSE ListLoaded

\* processInChunks resumes after `await new Promise(r => setTimeout(r, 0))`
BatchResume ==
  /\ pc = "yield"
  /\ UNCHANGED <<subjects, small4, stats, inputVars, jsonFile, auxVars>>
  /\ RunLoop(heap, result, idx, logs, reported, scored, subjects, small4, stats)

\* variant: the workbook stage reports 60, below the 70 of the watermark
WatermarkRead_Lower ==
  /\ pc = "awaitWatermark"
  /\ \E ok \in BOOLEAN :
       IF ok
       THEN /\ stage' = "finishing"
            /\ progress' = 95
            /\ reported' = reported \o <<60, 95>>
            /\ logs' = logs \o <<"sheets">>
            /\ pc' = "awaitWrite"
       ELSE Catch(logs, reported, "watermark")
  /\ UNCHANGED <<dataVars, jsonFile, auxVars>>

\* `await watermarkFile.arrayBuffer()` settles (lines 123-185)
WatermarkRead ==
  /\ pc = "awaitWatermark"
  /\ \E ok \in BOOLEAN :
       IF ok
       THEN /\ stage' = "finishing"
            /\ progress' = 95
            /\ reported' = reported \o <<80, 95>>
            /\ logs' = logs \o <<"sheets">>
            /\ pc' = "awaitWrite"
       ELSE Catch(logs, reported, "watermark")
  /\ UNCHANGED <<dataVars, jsonFile, auxVars>>

\* `await workbook.xlsx.writeBuffer()` settles (lines 185-190)
WriteBuffer ==
  /\ pc = "awaitWrite"
  /\ \E ok \in BOOLEAN :
       IF ok
       THEN /\ stage' = "done"
            /\ progress' = 100
            /\ reported' = Append(reported, 100)
            /\ logs' = logs
            /\ pc' = "returned"
       ELSE Catch(logs, reported, "writeBuffer")
  /\ UNCHANGED <<dataVars, jsonFile, auxVars>>

Next ==
  \/ Process
  \/ JsonFailed
  \/ JsonLoaded
  \/ BatchResume
  \/ WatermarkRead
  \/ WriteBuffer

Spec == Init /\ [][Next]_vars

\* reset(): the state signal is set to the idle state; a run of process()
\* that is suspended is not told and keeps its position and its locals
Reset ==
  /\ stage' = "idle"
  /\ progress' = 0
  /\ logs' = <<>>
  /\ UNCHANGED <<pc, dataVars, jsonFile, reported, auxVars>>

ResetNext ==
  \/ Next
  \/ Reset

\* process() with reset() called at any time
ResetSpec == Init /\ [][ResetNext]_vars

\* WF_vars(BatchResume), written out with ENABLED <<BatchResume>>_vars
\* replaced by its equal pc = "yield": the loop always has a batch to run
\* while the timer of line 462 is pending, and running it moves idx
ResumeFair == []<>(pc # "yield") \/ []<><<BatchResume>>_vars

\* Once the records are loaded the run cannot stall: the event loop runs the
\* setTimeout(0) continuation of every batch, the watermark read settles and
\* writeBuffer settles.  Nothing is assumed about the read of the JSON file.
FairSpec ==
  /\ Spec
  /\ ResumeFair
  /\ WF_vars(WatermarkRead)
  /\ WF_vars(WriteBuffer)

(***************************************************************************)
(* The identification, merge and subject detection stages of process()     *)
(* (lines 90-102) on their own, for raw records and rosters of many        *)
(* shapes: inferIdField, mergeData and identifySubjects applied to inputs  *)
(* drawn from the sets below.                                              *)
(***************************************************************************)
\* the record with the keys `keys`, key number p holding f[p]; Undef: absent
RECURSIVE RowFrom(_, _, _)
RowFrom(keys, f, p) ==
  IF p > Len(keys) THEN <<>>
  ELSE Opt(keys[p], f[p]) \o RowFrom(keys, f, p + 1)

RecordsOver(keys, values) ==
  {RowFrom(keys, f, 1) : f \in [1..Len(keys) -> values]}

\* lists of 1..MaxRaw records: the first holds every key of `keys`
ListsOver(keys, first, others) ==
  UNION {{<<r1>> \o rest : r1 \in RecordsOver(keys, first),
                           rest \in [1..(n - 1) -> RecordsOver(keys, others)]} :
         n \in 1..MaxRaw}

\* key lists some identity pattern accepts, and key lists none accepts
PatternShapes ==
  {<<"code", "exam_no">>, <<"exam_no", "uid", "student_id">>, <<"math", "id">>}

ValueShapes == {<<"seat", "desk">>, <<"xm", "seat">>}

IdentityInputs ==
  UNION {ListsOver(keys, {Str("a"), Num(1)}, {Str("a"), Num(1)}) :
         keys \in PatternShapes}
    \cup
  UNION {ListsOver(keys, {Str("a"), Num(1), Arr(<<"x">>)},
                   {Str("a"), Str("b"), Num(1), Num(2), Undef}) :
         keys \in ValueShapes}

\* raw records with an identity, with or without a name, a class, a field
\* called _raw; rosters of up to two records
NamedRecords(r) ==
  {<<i>> \o n \o c \o u \o << <<"math", Num(90)>> >> :
     i \in {<<"student_id", Str("S" \o ToString(r))>>,
            <<"student_id", Num(r)>>},
     n \in {<<>>, << <<"name", Str("")>> >>, << <<"name", Str("Bo")>> >>,
            << <<"xm", Str("")>> >>},
     c \in {<<>>, << <<"bj", Num(3)>> >>, << <<"class", Str("1")>> >>},
     u \in {<<>>, << <<"_raw", Num(7)>> >>}}

RosterRecords ==
  {<<i>> \o n \o c :
     i \in {<<"student_id", Str("S1")>>, <<"student_id", Num(1)>>,
            <<"student_id", Str("S9")>>},
     n \in {<< <<"name", Str("Ann")>> >>, << <<"xm", Str("Ann")>> >>,
            << <<"name", Str("")>> >>},
     c \in {<<>>, << <<"bj", Str("2")>> >>}}

Rosters ==
  {<<>>} \cup {<<k>> : k \in RosterRecords}
    \cup {<< << <<"student_id", Str("S1")>>, <<"name", Str(a)>> >>,
              << <<"student_id", Str("S1")>>, <<"name", Str(b)>> >> >> :
            a \in {"Ann"}, b \in {"Zed"}}

\* raw records whose class field, called bj or class, holds a spelling; a
\* blank spelling has no inner text and no grade-level token
SpelledRecord(r, key, chars) ==
  << <<"student_id", Str("S" \o ToString(r))>>, <<key, Str(Join(chars))>>,
     <<"math", Num(90)>> >>

BlankSpellings ==
  {Render(sp) : sp \in {b \in Spelling : b.grade = <<>> /\ b.inner = <<>>}}

TokenSpellings == {Render(sp) : sp \in {b \in Spelling : b.inner = <<>>}}

\* one record with a spelled class; a record without a class before one
\* with a blank class; a fully decorated class before a grade-level token
ClassInputs ==
  {<<SpelledRecord(1, key, c)>> : key \in {"bj", "class"}, c \in ClassSpellings}
    \cup
  {<< << <<"student_id", Str("S1")>>, <<"math", Num(80)>> >>,
      SpelledRecord(2, "bj", c) >> : c \in BlankSpellings}
    \cup
  {<< SpelledRecord(1, "bj", <<"G", "y", "(", "1", ")", "B", "J">>),
      SpelledRecord(2, "bj", c) >> : c \in TokenSpellings}

MergeInputs ==
  {[raw |-> raw, kb |-> <<>>] : raw \in IdentityInputs}
    \cup
  {[raw |-> raw, kb |-> <<>>] : raw \in ClassInputs}
    \cup
  {[raw |-> <<r1>> \o rest, kb |-> kb] :
     r1 \in NamedRecords(1),
     rest \in {<<>>, << << <<"student_id", Str("S2")>>, <<"math", Num(80)>> >> >>,
               << << <<"student_id", Num(1)>>, <<"name", Str("Cy")>> >> >>},
     kb \in Rosters}

\* process() after the roster was read: the records are loaded
MergeInit ==
  /\ pc = "loaded"
  /\ stage = "reading"
  /\ progress = 10
  /\ logs = <<"start", "loaded">>
  /\ heap = <<>>
  /\ result = <<>>
  /\ subjects = <<>>
  /\ small4 = <<>>
  /\ stats = <<>>
  /\ idx = 0
  /\ scored = <<>>
  /\ idField = ""
  /\ jsonFile = "list"
  /\ reported = <<0, 10>>
  /\ pending = <<>>
  /\ byClass = <<>>
  /\ other = NoRun
  /\ \E in \in MergeInputs :
       /\ rawData = in.raw
       /\ kbData = in.kb

\* lines 90-93
Identification ==
  /\ pc = "loaded"
  /\ idField' = inferIdField(rawData)
  /\ stage' = "analysis"
  /\ progress' = 20
  /\ reported' = Append(reported, 20)
  /\ logs' = Append(logs, "idField")
  /\ pc' = "identified"
  /\ UNCHANGED <<heap, result, subjects, small4, stats, idx, scored,
                 rawData, kbData, jsonFile, auxVars>>

\* lines 95-97
Merge ==
  /\ pc = "identified"
  /\ heap' = mergeData(rawData, kbData, idField)
  /\ stage' = "merging"
  /\ progress' = 30
  /\ reported' = Append(reported, 30)
  /\ pc' = "merged"
  /\ UNCHANGED <<logs, result, subjects, small4, stats, idx, scored,
                 inputVars, jsonFile, auxVars>>

\* lines 99-102
SubjectDetection ==
  /\ pc = "merged"
  /\ \E cls \in {identifySubjects(heap, idField)} :
       /\ subjects' = cls.subjects
       /\ small4' = cls.small4Subjects
  /\ stage' = "subjects"
  /\ progress' = 40
  /\ reported' = Append(reported, 40)
  /\ logs' = Append(logs, "subjects")
  /\ pc' = "classified"
  /\ UNCHANGED <<heap, result, stats, idx, scored, inputVars, jsonFile,
                 auxVars>>

MergeNext ==
  \/ Identification
  \/ Merge
  \/ SubjectDetection

MergeSpec == MergeInit /\ [][MergeNext]_vars

(***************************************************************************)
(* The combination step of process() (lines 108-115) on its own, started   *)
(* where processInChunks has returned: one record, scored and ranked,      *)
(* whose elective label is any of the label texts.                         *)
(***************************************************************************)
LabelledRecord(label, biology) ==
  << <<"student_id", Str("S1")>>, <<"class", Str("1B")>>,
     <<"physics", Num(2)>>, <<"chemistry", Num(1)>>, <<"biology", Num(biology)>>,
     <<"geography", Num(1)>>, <<"combination", Str(Join(label))>> >>

LabelInputs ==
  {<<LabelledRecord(label, b)>> : label \in LabelTexts \ {<<>>}, b \in {0, 1}}

\* process(), lines 91-106, as a function of the raw records
RankedFrom(raw) ==
  Bind(inferIdField(raw), LAMBDA idF :
    Bind(mergeData(raw, <<>>, idF), LAMBDA merged :
      Bind(identifySubjects(merged, idF), LAMBDA cls :
        Bind([s \in {cls.small4Subjects[q] : q \in 1..Len(cls.small4Subjects)}
                |-> StatsOf(merged, s)], LAMBDA st :
          Bind(ScoreRows(merged, [r \in 1..Len(raw) |-> r], 0, Len(raw),
                         cls.subjects, cls.small4Subjects, st), LAMBDA h1 :
            Bind(RankAll(h1, [r \in 1..Len(raw) |-> r], cls.subjects,
                         cls.small4Subjects), LAMBDA ranked :
              [idField |-> idF, subjects |-> cls.subjects,
               small4 |-> cls.small4Subjects, stats |-> st,
               heap |-> ranked.h, result |-> ranked.arr]))))))

LabelInit ==
  /\ pc = "ranked"
  /\ stage = "scoring"
  /\ progress = 50
  /\ logs = <<"start", "loaded", "idField", "subjects">>
  /\ jsonFile = "list"
  /\ kbData = <<>>
  /\ reported = <<0, 10, 20, 30, 40, 50>>
  /\ pending = <<>>
  /\ byClass = <<>>
  /\ other = NoRun
  /\ \E raw \in LabelInputs :
       \E at \in {RankedFrom(raw)} :
         /\ rawData = raw
         /\ idField = at.idField
         /\ subjects = at.subjects
         /\ small4 = at.small4
         /\ stats = at.stats
         /\ heap = at.heap
         /\ result = at.result
         /\ idx = CHUNK_SIZE
         /\ scored = [x \in 1..Len(raw) |-> 1]

\* lines 108-115: inferCombinations, then calcCombinationRanks
Combinations ==
  /\ pc = "ranked"
  /\ \E withCombos \in {inferCombinations(heap, result, subjects)} :
       heap' = calcCombinationRanks(withCombos, result)
  /\ logs' = logs \o <<"combinations", "comboRanks">>
  /\ pc' = "combined"
  /\ UNCHANGED <<stage, progress, reported, result, subjects, small4, stats,
                 idx, scored, inputVars, jsonFile, auxVars>>

LabelNext == Combinations

LabelSpec == LabelInit /\ [][LabelNext]_vars

(***************************************************************************)
(* The ranking lines of processInChunks (504-524) taken one calcRanks call *)
(* at a time, started where the batch loop has ended.  The subjects of the *)
(* inputs are chinese and chemistry, or a subject called raw or assigned   *)
(* beside math.                                                            *)
(***************************************************************************)
RankShapes == {<<"chinese", "chemistry">>, <<"raw", "math">>, <<"assigned", "math">>}

RankRecord(r, class, keys, a, b) ==
  << <<"student_id", Str("S" \o ToString(r))>>, <<"class", Str(class)>>,
     <<keys[1], Num(a)>>, <<keys[2], Num(b)>> >>

RankInputs ==
  UNION {{[r \in 1..n |-> RankRecord(r, f[r][1], keys, f[r][2], f[r][3])] :
            f \in [1..n -> Classes \X {1, 2} \X {1, 2}]} :
         n \in 1..2, keys \in RankShapes}

\* process(), lines 91-105, and the batch loop of processInChunks
ScoredFrom(raw) ==
  Bind(inferIdField(raw), LAMBDA idF :
    Bind(mergeData(raw, <<>>, idF), LAMBDA merged :
      Bind(identifySubjects(merged, idF), LAMBDA cls :
        Bind([s \in {cls.small4Subjects[q] : q \in 1..Len(cls.small4Subjects)}
                |-> StatsOf(merged, s)], LAMBDA st :
          [idField |-> idF, subjects |-> cls.subjects,
           small4 |-> cls.small4Subjects, stats |-> st,
           heap |-> ScoreRows(merged, [r \in 1..Len(raw) |-> r], 0, Len(raw),
                              cls.subjects, cls.small4Subjects, st)]))))

\* the calcRanks calls of one array (scope 0: result, scope c: class c),
\* in the order of lines 504-509 and 518-523
RECURSIVE SubjectCalls(_, _, _, _, _)
SubjectCalls(scope, subj, sm4, prefix, p) ==
  IF p > Len(subj) THEN <<>>
  ELSE <<[scope |-> scope, key |-> subj[p],
          rankKey |-> prefix \o "_" \o subj[p]]>>
         \o (IF InSeq(sm4, subj[p])
             THEN <<[scope |-> scope, key |-> "assigned_" \o subj[p],
                     rankKey |-> prefix \o "_assigned_" \o subj[p]]>>
             ELSE <<>>)
         \o SubjectCalls(scope, subj, sm4, prefix, p + 1)

CallsOf(scope, subj, sm4, prefix) ==
  <<[scope |-> scope, key |-> "_rawTotal", rankKey |-> prefix \o "_raw"],
    [scope |-> scope, key |-> "_assignedTotal",
     rankKey |-> prefix \o "_assigned"]>>
    \o SubjectCalls(scope, subj, sm4, prefix, 1)

RECURSIVE ClassCalls(_, _, _)
ClassCalls(n, subj, sm4) ==
  IF n = 0 THEN <<>>
  ELSE ClassCalls(n - 1, subj, sm4) \o CallsOf(n, subj, sm4, "classRank")

RankInit ==
  /\ pc = "yearRanks"
  /\ stage = "scoring"
  /\ progress = 50
  /\ logs = <<"start", "loaded", "idField", "subjects">>
  /\ reported = <<0, 10, 20, 30, 40, 50>>
  /\ jsonFile = "list"
  /\ kbData = <<>>
  /\ byClass = <<>>
  /\ other = NoRun
  /\ \E raw \in RankInputs :
       \E at \in {ScoredFrom(raw)} :
         /\ rawData = raw
         /\ idField = at.idField
         /\ subjects = at.subjects
         /\ small4 = at.small4
         /\ stats = at.stats
         /\ heap = at.heap
         /\ result = [r \in 1..Len(raw) |-> r]
         /\ idx = ((Len(raw) + CHUNK_SIZE - 1) \div CHUNK_SIZE) * CHUNK_SIZE
         /\ scored = [x \in 1..Len(raw) |-> 1]
         /\ pending = CallsOf(0, at.subjects, at.small4, "yearRank")

rankFrame == <<stage, progress, logs, reported, subjects, small4, stats, idx,
               scored, inputVars, jsonFile, other>>

\* one calcRanks call on result (lines 504-509)
CalcRanksCohort ==
  /\ pc = "yearRanks"
  /\ pending # <<>>
  /\ \E st \in {calcRanks([h |-> heap, arr |-> result],
                          Head(pending).key, Head(pending).rankKey)} :
       /\ heap' = st.h
       /\ result' = st.arr
  /\ pending' = Tail(pending)
  /\ UNCHANGED <<pc, byClass, rankFrame>>

\* lines 511-515: the class arrays, in the order of result
GroupByClass ==
  /\ pc = "yearRanks"
  /\ pending = <<>>
  /\ \E classes \in {ClassesOf(heap, result, Len(result))} :
       /\ byClass' = [c \in 1..Len(classes) |->
                        ClassMembers(heap, result, classes[c])]
       /\ pending' = ClassCalls(Len(classes), subjects, small4)
  /\ pc' = "classRanks"
  /\ UNCHANGED <<heap, result, rankFrame>>

\* one calcRanks call on a class array (lines 518-523)
CalcRanksClass ==
  /\ pc = "classRanks"
  /\ pending # <<>>
  /\ \E st \in {calcRanks([h |-> heap, arr |-> byClass[Head(pending).scope]],
                          Head(pending).key, Head(pending).rankKey)} :
       /\ heap' = st.h
       /\ byClass' = [byClass EXCEPT ![Head(pending).scope] = st.arr]
  /\ pending' = Tail(pending)
  /\ pc' = IF Tail(pending) = <<>> THEN "ranked" ELSE "classRanks"
  /\ UNCHANGED <<result, rankFrame>>

RankNext ==
  \/ CalcRanksCohort
  \/ GroupByClass
  \/ CalcRanksClass

RankSpec == RankInit /\ [][RankNext]_vars

(***************************************************************************)
(* Two runs of process() on the one service, both suspended at the yield   *)
(* after their first batch, resumed in any order.  The first run is the    *)
(* run of Spec; the locals of the second are the fields of other.  The     *)
(* runs share the state signal (stage, progress, logs) and nothing else:   *)
(* rawData, mergedData, stats and result are locals of each call.  The     *)
(* second run has no watermark file.                                       *)
(***************************************************************************)
PairChoices(schema) ==
  IF schema = "A"
  THEN {Choice("alt", Num(3), ch, Undef) : ch \in {Undef, Num(1), Num(8)}}
  ELSE {Choice("alt", b, b, Str("D+WH")) : b \in {Num(0), Num(1)}}

PairLists ==
  UNION {{RawList(schema, choice, CHUNK_SIZE + 1) :
            choice \in [1..(CHUNK_SIZE + 1) -> PairChoices(schema)]} :
         schema \in {"A", "C"}}

\* process(), lines 91-106, up to the first await of processInChunks
FirstBatch(raw) ==
  Bind(inferIdField(raw), LAMBDA idF :
    Bind(mergeData(raw, <<>>, idF), LAMBDA merged :
      Bind(identifySubjects(merged, idF), LAMBDA cls :
        Bind([s \in {cls.small4Subjects[q] : q \in 1..Len(cls.small4Subjects)}
                |-> StatsOf(merged, s)], LAMBDA st :
          [rawData |-> raw, idField |-> idF, subjects |-> cls.subjects,
           small4 |-> cls.small4Subjects, stats |-> st,
           result |-> [r \in 1..Len(raw) |-> r], idx |-> CHUNK_SIZE,
           heap |-> ScoreBatch(merged, [r \in 1..Len(raw) |-> r], 0,
                               cls.subjects, cls.small4Subjects, st)]))))

PairInit ==
  /\ pc = "yield"
  /\ stage = "scoring"
  /\ progress = 50
  /\ logs = <<"start", "start", "loaded", "idField", "subjects",
              "loaded", "idField", "subjects">>
  /\ reported = <<0, 10, 0, 10, 20, 30, 40, 50, 20, 30, 40, 50>>
  /\ jsonFile = "list"
  /\ kbData = <<>>
  /\ pending = <<>>
  /\ byClass = <<>>
  /\ \E rawA \in PairLists, rawB \in PairLists :
       \E a \in {FirstBatch(rawA)}, b \in {FirstBatch(rawB)} :
         /\ rawData = rawA
         /\ idField = a.idField
         /\ subjects = a.subjects
         /\ small4 = a.small4
         /\ stats = a.stats
         /\ heap = a.heap
         /\ result = a.result
         /\ idx = a.idx
         /\ scored = [x \in 1..Len(rawA) |-> IF x <= CHUNK_SIZE THEN 1 ELSE 0]
         /\ other = [pc |-> "yield", rawData |-> rawB, subjects |-> b.subjects,
                     small4 |-> b.small4, stats |-> b.stats, heap |-> b.heap,
                     result |-> b.result, idx |-> b.idx]

\* variant: stats is kept in a field of the service, where the entries of
\* the first run stand
StatsFor_Shared(own, first) ==
  [s \in DOMAIN own |-> IF s \in DOMAIN first THEN first[s] ELSE own[s]]

\* const stats: any = {} (line 453): a local of each call of processInChunks
StatsFor(own, first) == own

\* the second run resumes after the timer of line 462: one batch, and after
\* the last batch lines 504-184 up to `await workbook.xlsx.writeBuffer()`
OtherResume ==
  /\ other.pc = "yield"
  /\ \E h1 \in {ScoreBatch(other.heap, other.result, other.idx, other.subjects,
                           other.small4, StatsFor(other.stats, stats))} :
       IF other.idx + CHUNK_SIZE < Len(other.result)
       THEN /\ other' = [other EXCEPT !.heap = h1, !.idx = @ + CHUNK_SIZE]
            /\ UNCHANGED <<stage, progress, logs, reported>>
       ELSE \E ranked \in {RankAll(h1, other.result, other.subjects,
                                   other.small4)} :
              \E withCombos \in {inferCombinations(ranked.h, ranked.arr,
                                                   other.subjects)} :
                /\ other' = [other EXCEPT
                               !.heap = calcCombinationRanks(withCombos,
                                                             ranked.arr),
                               !.result = ranked.arr,
                               !.idx = @ + CHUNK_SIZE,
                               !.pc = "awaitWrite"]
                /\ stage' = "finishing"
                /\ progress' = 95
                /\ reported' = reported \o <<80, 95>>
                /\ logs' = logs \o <<"combinations", "comboRanks", "sheets">>
  /\ UNCHANGED <<pc, dataVars, jsonFile, pending, byClass>>

\* `await workbook.xlsx.writeBuffer()` of the second run settles
OtherWrite ==
  /\ other.pc = "awaitWrite"
  /\ \E ok \in BOOLEAN :
       IF ok
       THEN /\ stage' = "done"
            /\ progress' = 100
            /\ reported' = Append(reported, 100)
            /\ logs' = logs
            /\ other' = [other EXCEPT !.pc = "returned"]
       ELSE /\ stage' = "error"
            /\ progress' = 0
            /\ reported' = Append(reported, 0)
            /\ logs' = Append(logs, "error: writeBuffer")
            /\ other' = [other EXCEPT !.pc = "thrown"]
  /\ UNCHANGED <<pc, dataVars, jsonFile, pending, byClass>>

PairNext ==
  \/ BatchResume
  \/ WatermarkRead
  \/ WriteBuffer
  \/ OtherResume
  \/ OtherWrite

PairSpec == PairInit /\ [][PairNext]_vars

(***************************************************************************)
(* Vocabulary of the properties.                                           *)
(***************************************************************************)
Objects == DOMAIN heap

\* the entries the catch block of process() writes to the log
ErrorEntries ==
  {"error: " \o m : m \in {"unreadable", "syntax", "not a non-empty array",
                           "TypeError", "watermark", "writeBuffer"}}

ErrorLogged == \E p \in 1..Len(logs) : logs[p] \in ErrorEntries

\* the loop of processInChunks has ended, so the ranking lines have run
LoopDone == Len(result) > 0 /\ idx >= Len(result)

\* the numeric value of a field, missing or non-numeric counted as 0
Metric(x, key) ==
  LET v == Get(heap[x], key) IN IF v.t = "num" THEN v.n ELSE 0

SameClass(x, y) == Get(heap[x], "class") = Get(heap[y], "class")

SubjectSet == {subjects[q] : q \in 1..Len(subjects)}

Small4Set == {small4[q] : q \in 1..Len(small4)}

\* <<metric key, rank key suffix>> of every calcRanks call of a scope
MetricPairs ==
  {<<"_rawTotal", "_raw">>, <<"_assignedTotal", "_assigned">>}
    \cup {<<s, "_" \o s>> : s \in SubjectSet}
    \cup {<<"assigned_" \o s, "_assigned_" \o s>> : s \in Small4Set}

\* 1 + the number of members of scope whose metric is strictly greater
CompetitionRank(x, scope, key) ==
  1 + Cardinality({y \in scope : Metric(y, key) > Metric(x, key)})

ClassOf(x) == {y \in Objects : SameClass(x, y)}

(***************************************************************************)
(* C1.  calcRanks assigns standard competition ranks: in the cohort list   *)
(* and in every class list, for every metric, the rank of a member is 1    *)
(* plus the number of members of the list whose metric value (missing or   *)
(* non-numeric counted as 0) is strictly greater.                          *)
(***************************************************************************)
C1_CompetitionRanks ==
  LoopDone =>
    \A x \in Objects : \A mp \in MetricPairs :
      /\ Get(heap[x], "yearRank" \o mp[2])
           = Num(CompetitionRank(x, Objects, mp[1]))
      /\ Get(heap[x], "classRank" \o mp[2])
           = Num(CompetitionRank(x, ClassOf(x), mp[1]))

\* totals tied, tied, lower give ranks 1, 1, 3; and a record whose subject
\* value is not a number is ranked as 0
C1_Witness ==
  /\ LoopDone
  /\ Cardinality(Objects) = 3
  /\ \E x, y, z \in Objects :
       /\ x # y
       /\ Metric(x, "_rawTotal") = Metric(y, "_rawTotal")
       /\ Metric(z, "_rawTotal") < Metric(x, "_rawTotal")
       /\ Get(heap[x], "yearRank_raw") = Num(1)
       /\ Get(heap[y], "yearRank_raw") = Num(1)
       /\ Get(heap[z], "yearRank_raw") = Num(3)

(***************************************************************************)
(* C2.  Rebasing: min and max of a rebasing subject are those of the raw   *)
(* values (missing counted as 0) of all records of the run; if they differ *)
(* the assigned value a of a scored record is the integer in [40, 100]     *)
(* with a - 1/2 <= 40 + (s - min) * 60 / (max - min) < a + 1/2, the        *)
(* minimum gets 40 and the maximum 100; if they are equal, a = s.          *)
(***************************************************************************)
CohortMin(key) ==
  CHOOSE m \in {Metric(y, key) : y \in Objects} :
    \A y \in Objects : m <= Metric(y, key)

CohortMax(key) ==
  CHOOSE m \in {Metric(y, key) : y \in Objects} :
    \A y \in Objects : m >= Metric(y, key)

C2_Rebasing ==
  \A x \in Objects : \A subj \in Small4Set :
    scored[x] >= 1 =>
      LET v == Metric(x, subj)
          mn == CohortMin(subj)
          mx == CohortMax(subj)
          d == mx - mn
          a == Get(heap[x], "assigned_" \o subj)
          exact2 == 2 * (40 * d + (v - mn) * 60)
      IN  /\ a.t = "num"
          /\ IF d # 0
             THEN /\ a.n \in 40..100
                  /\ 2 * a.n * d - d <= exact2
                  /\ exact2 < 2 * a.n * d + d
                  /\ (v = mn => a.n = 40)
                  /\ (v = mx => a.n = 100)
             ELSE a.n = v

\* raw values 0 (missing), 1, 8 of one subject spread over two classes:
\* 47.5 is rounded up to 48
C2_Witness ==
  /\ LoopDone
  /\ \E x, y, z \in Objects :
       /\ ~Has(heap[x], "chemistry")
       /\ Get(heap[x], "assigned_chemistry") = Num(40)
       /\ Get(heap[y], "chemistry") = Num(1)
       /\ Get(heap[y], "assigned_chemistry") = Num(48)
       /\ Get(heap[z], "chemistry") = Num(8)
       /\ Get(heap[z], "assigned_chemistry") = Num(100)
       /\ ~SameClass(x, y)

(***************************************************************************)
(* C3.  For every scored record, assignedTotal = rawTotal - (sum of its    *)
(* raw rebasing-subject values) + (sum of its assigned rebasing-subject    *)
(* values), also when rawTotal is the declared total.                      *)
(***************************************************************************)
RECURSIVE SumOver(_, _, _)
SumOver(x, keys, prefix) ==
  IF keys = {} THEN 0
  ELSE LET k == CHOOSE k \in keys : TRUE
       IN  Metric(x, prefix \o k) + SumOver(x, keys \ {k}, prefix)

C3_AssignedTotal ==
  \A x \in Objects :
    scored[x] >= 1 =>
      /\ Get(heap[x], "_assignedTotal").t = "num"
      /\ Get(heap[x], "_assignedTotal").n
           = Metric(x, "_rawTotal") - SumOver(x, Small4Set, "")
               + SumOver(x, Small4Set, "assigned_")

\* a record whose declared total was taken (it differs from the computed
\* sum) and whose rebased value differs from its raw value
C3_Witness ==
  \E x \in Objects :
    /\ scored[x] >= 1
    /\ Small4Set # {}
    /\ Has(heap[x], "total")
    /\ Get(heap[x], "_rawTotal") = Get(heap[x], "total")
    /\ Metric(x, "_rawTotal") # SumOver(x, SubjectSet, "")
    /\ SumOver(x, Small4Set, "assigned_") # SumOver(x, Small4Set, "")

(***************************************************************************)
(* C4.  Every scored record has a numeric rawTotal and assignedTotal, and  *)
(* all records do once the loop has ended; when no subject is a rebasing   *)
(* subject the two are equal and no assigned_<subject> field exists.       *)
(***************************************************************************)
C4_TotalsDefined ==
  /\ \A x \in Objects :
       (scored[x] >= 1 \/ LoopDone) =>
         /\ Get(heap[x], "_rawTotal").t = "num"
         /\ Get(heap[x], "_assignedTotal").t = "num"
         /\ Small4Set = {} =>
              /\ Get(heap[x], "_assignedTotal") = Get(heap[x], "_rawTotal")
              /\ \A s \in SubjectSet : ~Has(heap[x], "assigned_" \o s)

\* two records, two subjects, no rebasing subject: the higher total has
\* rank 1, the lower rank 2, and the totals are positive
C4_Witness ==
  /\ LoopDone
  /\ Small4Set = {}
  /\ Cardinality(SubjectSet) = 2
  /\ Cardinality(Objects) = 2
  /\ \E x, y \in Objects :
       /\ Metric(x, "_rawTotal") > Metric(y, "_rawTotal")
       /\ Metric(y, "_rawTotal") > 0
       /\ Get(heap[x], "yearRank_raw") = Num(1)
       /\ Get(heap[y], "yearRank_raw") = Num(2)
       /\ Get(heap[x], "_assignedTotal") = Get(heap[x], "_rawTotal")

(***************************************************************************)
(* C5.  rawTotal of a scored record is the declared total when the record  *)
(* has a declared-total field, its first such field holds a number and the *)
(* number differs from the computed sum by at most 2; in every other case  *)
(* it is the computed sum.  Scoring raises nothing: no error entry, no     *)
(* error stage while the loop runs.                                        *)
(***************************************************************************)
\* the fields a record has when it is scored
InputKeys(x) ==
  LET NotDerived(k) == k \notin {"_rawTotal", "_assignedTotal"}
  IN  Filter(Keys(heap[x]), NotDerived, 1)

DeclaredTotal(x) ==
  LET declared == Filter(InputKeys(x), totalKeys, 1)
  IN  IF declared = <<>> THEN Undef ELSE Get(heap[x], declared[1])

Abs(n) == IF n < 0 THEN 0 - n ELSE n

C5_DeclaredTotal ==
  /\ \A x \in Objects :
       scored[x] >= 1 =>
         LET calc == SumOver(x, SubjectSet, "")
             decl == DeclaredTotal(x)
         IN  IF decl.t = "num" /\ Abs(decl.n - calc) <= 2
             THEN Get(heap[x], "_rawTotal") = Num(decl.n)
             ELSE Get(heap[x], "_rawTotal") = Num(calc)
  /\ pc = "yield" => stage # "error" /\ ~ErrorLogged

\* one record whose declared total differs by exactly 2 and is taken, one
\* whose declared total differs by 3 and is discarded, one whose declared
\* total is not a number
C5_Witness ==
  /\ pc = "returned"
  /\ ~ErrorLogged
  /\ \E x, y, z \in Objects :
       /\ Abs(DeclaredTotal(x).n - SumOver(x, SubjectSet, "")) = 2
       /\ Get(heap[x], "_rawTotal") = DeclaredTotal(x)
       /\ DeclaredTotal(y).t = "num"
       /\ Abs(DeclaredTotal(y).n - SumOver(y, SubjectSet, "")) = 3
       /\ Metric(y, "_rawTotal") = SumOver(y, SubjectSet, "")
       /\ DeclaredTotal(z).t = "str"
       /\ Metric(z, "_rawTotal") = SumOver(z, SubjectSet, "")

(***************************************************************************)
(* C6.  A run on a non-empty list of records terminates: when the loop of  *)
(* processInChunks has ended its body has run exactly once for every       *)
(* record, and every run that has loaded its records reaches the finished  *)
(* stage or the error stage.                                               *)
(***************************************************************************)
C6_Terminates ==
  /\ [](LoopDone => \A x \in Objects : scored[x] = 1)
  /\ (Len(result) > 0) ~> (stage \in {"done", "error"})

\* a run of three batches that reached the finished stage
C6_Witness ==
  /\ pc = "returned"
  /\ stage = "done"
  /\ Cardinality(Objects) = 3
  /\ idx = 3 * CHUNK_SIZE
  /\ \A x \in Objects : scored[x] = 1

(***************************************************************************)
(* C7.  Once the ranking lines have run, every record has a cohort rank    *)
(* and a class rank for rawTotal, for assignedTotal, for every subject and *)
(* for the assigned value of every rebasing subject, each a number between *)
(* 1 and the size of its scope.                                            *)
(***************************************************************************)
C7_RanksTotal ==
  LoopDone =>
    \A x \in Objects : \A mp \in MetricPairs :
      LET yr == Get(heap[x], "yearRank" \o mp[2])
          cr == Get(heap[x], "classRank" \o mp[2])
      IN  /\ yr.t = "num" /\ yr.n \in 1..Cardinality(Objects)
          /\ cr.t = "num" /\ cr.n \in 1..Cardinality(ClassOf(x))

\* a finished run with a rebasing subject, three records and two classes in
\* which some record has the last cohort rank for an assigned value
C7_Witness ==
  /\ pc = "returned"
  /\ Small4Set # {}
  /\ Cardinality(Objects) = 3
  /\ \E x, y \in Objects : ~SameClass(x, y)
  /\ \E x \in Objects : \E s \in Small4Set :
       Get(heap[x], "yearRank_assigned_" \o s) = Num(3)

(***************************************************************************)
(* C8.  Class ranks are ranks inside the class: for every metric the class *)
(* ranks of two records of one class are ordered as their metric values    *)
(* are, never exceed the size of the class, and some record of every class *)
(* has class rank 1, whatever its cohort rank.                             *)
(***************************************************************************)
C8_ClassRanks ==
  LoopDone =>
    \A x \in Objects : \A mp \in MetricPairs :
      LET rk(y) == Get(heap[y], "classRank" \o mp[2]).n
      IN  /\ \E y \in ClassOf(x) : rk(y) = 1
          /\ rk(x) <= Cardinality(ClassOf(x))
          /\ \A y \in ClassOf(x) :
               /\ (Metric(x, mp[1]) > Metric(y, mp[1])) <=> (rk(x) < rk(y))
               /\ (Metric(x, mp[1]) = Metric(y, mp[1])) <=> (rk(x) = rk(y))

\* a record that is second in the cohort and first of its class of two, and
\* its classmate third in the cohort and second in the class
C8_Witness ==
  /\ LoopDone
  /\ \E x \in Objects : \E y \in ClassOf(x) :
       /\ Get(heap[x], "yearRank_raw") = Num(2)
       /\ Get(heap[x], "classRank_raw") = Num(1)
       /\ Get(heap[y], "yearRank_raw") = Num(3)
       /\ Get(heap[y], "classRank_raw") = Num(2)

(***************************************************************************)
(* C9.  A record without an explicit-label match holds exactly the         *)
(* combination definitions all of whose letter codes resolve to a subject  *)
(* field in which the record has a number greater than 0.                  *)
(***************************************************************************)
CodesOf(combo) == {Split(combo)[q] : q \in 1..Len(Split(combo))}

AllowedSet == {allowedCombinations[q] : q \in 1..Len(allowedCombinations)}

\* the combinations whose sorted letter codes equal the normalized label
LabelMatches(x) ==
  LET label == Get(heap[x], "combination")
  IN  IF label.t # "str" THEN {}
      ELSE {c \in AllowedSet :
              normalizeCombinationString(label.s)
                = SortChars(Split(c), Len(Split(c)))}

InferredSet(x) ==
  {c \in AllowedSet :
     \A code \in CodesOf(c) :
       \E s \in SubjectSet :
         /\ subjectMap(s) = code
         /\ Get(heap[x], s).t = "num"
         /\ Get(heap[x], s).n > 0}

CombinationsHeld(x) ==
  LET a == Get(heap[x], "_combinations").a IN {a[q] : q \in 1..Len(a)}

C9_InferredCombinations ==
  LoopDone =>
    \A x \in Objects :
      LabelMatches(x) = {} =>
        /\ Get(heap[x], "_combinations").t = "arr"
        /\ CombinationsHeld(x) = InferredSet(x)
        /\ Len(Get(heap[x], "_combinations").a) = Cardinality(InferredSet(x))

\* a record without label holding two combinations, a record whose label
\* spells no combination holding one by its scores, and a record without
\* label holding none because of a score of 0
C9_Witness ==
  /\ LoopDone
  /\ \E x, y, z \in Objects :
       /\ ~Has(heap[x], "combination")
       /\ CombinationsHeld(x) = {"WHS", "WHD"}
       /\ Get(heap[y], "combination") = Str("WH")
       /\ LabelMatches(y) = {}
       /\ CombinationsHeld(y) = {"WHS"}
       /\ ~Has(heap[z], "combination")
       /\ CombinationsHeld(z) = {}
       /\ Get(heap[z], "biology") = Num(0)

(***************************************************************************)
(* C10.  For every combination definition, a record holding it has four    *)
(* rank fields, the competition ranks of rawTotal and of assignedTotal     *)
(* among the records holding the combination and among those of them in    *)
(* its class; a record not holding it has none of the four fields.         *)
(***************************************************************************)
Holders(combo) == {y \in Objects : combo \in CombinationsHeld(y)}

C10_CombinationRanks ==
  LoopDone =>
    \A x \in Objects : \A combo \in AllowedSet :
      LET scope == Holders(combo)
          F(prefix, suffix) == Get(heap[x], prefix \o combo \o suffix)
      IN  IF x \in scope
          THEN /\ F("gradeRank_combo_", "_raw")
                    = Num(CompetitionRank(x, scope, "_rawTotal"))
               /\ F("gradeRank_combo_", "_assigned")
                    = Num(CompetitionRank(x, scope, "_assignedTotal"))
               /\ F("classRank_combo_", "_raw")
                    = Num(CompetitionRank(x, scope \cap ClassOf(x), "_rawTotal"))
               /\ F("classRank_combo_", "_assigned")
                    = Num(CompetitionRank(x, scope \cap ClassOf(x), "_assignedTotal"))
          ELSE /\ F("gradeRank_combo_", "_raw") = Undef
               /\ F("gradeRank_combo_", "_assigned") = Undef
               /\ F("classRank_combo_", "_raw") = Undef
               /\ F("classRank_combo_", "_assigned") = Undef

\* a record holding two combinations; a record not holding WHS, without the
\* field, whose total is the higher; and a holder of WHS that is second
\* among the holders and third in the cohort
C10_Witness ==
  /\ LoopDone
  /\ \E x, y, z \in Objects :
       /\ CombinationsHeld(x) = {"WHS", "WHD"}
       /\ Get(heap[x], "gradeRank_combo_WHD_raw").t = "num"
       /\ "WHS" \notin CombinationsHeld(y)
       /\ ~Has(heap[y], "gradeRank_combo_WHS_raw")
       /\ "WHS" \in CombinationsHeld(z)
       /\ Get(heap[z], "gradeRank_combo_WHS_raw") = Num(2)
       /\ Get(heap[z], "yearRank_raw") = Num(3)

(***************************************************************************)
(* C11: a run is a function of the raw records alone, and its outcome (the *)
(* identity field, the subjects, and every field of every record: totals,  *)
(* assigned values, combinations, ranks) does not depend on the order in   *)
(* which the sorts leave tied records.  The sorts are stable, so the order *)
(* of tied records is the order of the array processInChunks starts from;  *)
(* the claim says that every such order gives the outcome of the run.      *)
(***************************************************************************)
Orders(n) ==
  {o \in [1..n -> 1..n] : \A a, b \in 1..n : a # b => o[a] # o[b]}

OutcomeFrom(order) ==
  Bind(RunFrom(rawData, order), LAMBDA out :
    /\ out.idField = idField
    /\ out.subjects = subjects
    /\ out.heap = heap)

InputOrder == [r \in 1..Len(rawData) |-> r]

C12_BatchSizeFree ==
  /\ LoopDone => OutcomeFrom(InputOrder)
  /\ Len(result) > 0 =>
       \A s \in Small4Set :
         stats[s] = [min |-> CohortMin(s), max |-> CohortMax(s)]

\* a cohort scored in several batches, with a rebased subject whose values
\* differ, so that the assigned values depend on the whole cohort
C12_Witness ==
  /\ LoopDone
  /\ Len(result) > CHUNK_SIZE
  /\ \E s \in Small4Set, x, y \in Objects :
       /\ stats[s].min < stats[s].max
       /\ Get(heap[x], "assigned_" \o s) # Get(heap[y], "assigned_" \o s)
       /\ Get(heap[x], "_assignedTotal") # Get(heap[y], "_assignedTotal")

(***************************************************************************)
(* Vocabulary of the merge properties.                                     *)
(***************************************************************************)
Merged == pc \in {"merged", "classified"}

\* the roster records whose identity value has the string form of the
\* identity value of raw record x
RosterMatches(x) ==
  {r \in 1..Len(kbData) :
     StringOf(Get(kbData[r], inferIdField(kbData)))
       = StringOf(Get(rawData[x], idField))}

\* no name field, or only empty ones
Nameless(row) ==
  \A p \in 1..Len(row) : namePattern(row[p][1]) => ~Truthy(row[p][2])

\* the non-empty names a record holds
NamesOf(row) ==
  {row[p][2] : p \in {q \in 1..Len(row) :
                        namePattern(row[q][1]) /\ Truthy(row[q][2])}}

(***************************************************************************)
(* C13: when a raw record has no name and the roster has a record of the   *)
(* same identity (by string form) with a non-empty name, the name of the   *)
(* merged record is a name of such a roster record, whatever the name      *)
(* fields are called.                                                      *)
(***************************************************************************)
C13_RosterName ==
  Merged =>
    \A x \in DOMAIN heap :
      (/\ Nameless(rawData[x])
       /\ \E r \in RosterMatches(x) : NamesOf(kbData[r]) # {})
        => Get(heap[x], "name") \in
             UNION {NamesOf(kbData[r]) : r \in RosterMatches(x)}

(***************************************************************************)
(* C14: when the JSON file holds a value that is not a list, or the empty  *)
(* list, the run ends in the catch block straight from the read: the log   *)
(* holds the start entry and the error entry only, no identity field was   *)
(* inferred, no record merged, no subject detected, no array built, and    *)
(* the run has thrown, not returned.                                       *)
(***************************************************************************)
C14_InvalidInput ==
  (jsonFile \in {"notArray", "empty"} /\ pc # "awaitJson") =>
    /\ pc = "thrown"
    /\ stage = "error"
    /\ logs = <<"start", "error: not a non-empty array">>
    /\ idField = ""
    /\ heap = <<>>
    /\ subjects = <<>>
    /\ result = <<>>

C14_Witness ==
  /\ jsonFile = "empty"
  /\ pc = "thrown"
  /\ logs[Len(logs)] = "error: not a non-empty array"

(***************************************************************************)
(* C15: a merged record holds, under every key of its raw record, the      *)
(* value the raw record holds, and its _raw field refers to the raw        *)
(* record.  As stated, for every raw record:                               *)
(***************************************************************************)
FieldsKept(x) ==
  \A p \in 1..Len(rawData[x]) :
    Get(heap[x], rawData[x][p][1]) = rawData[x][p][2]

C16_ErrorPath ==
  /\ [][(pc # "thrown" /\ pc' = "thrown") =>
          /\ Len(logs') > Len(logs)
          /\ \A p \in 1..Len(logs) : logs'[p] = logs[p]
          /\ logs'[Len(logs')] \in ErrorEntries
          /\ stage' = "error"
          /\ progress' = 0]_vars
  /\ [](pc = "thrown" => [](pc = "thrown" /\ stage = "error" /\ progress = 0))
  /\ [](stage = "done" => [](pc = "returned" /\ ~ErrorLogged))

\* writeBuffer rejects after all records were scored and ranked
C16_Witness ==
  /\ pc = "thrown"
  /\ stage = "error"
  /\ progress = 0
  /\ LoopDone
  /\ logs[Len(logs)] = "error: writeBuffer"

(***************************************************************************)
(* C17: a record whose label spells at least one combination definition    *)
(* holds exactly the definitions its label spells, and nothing inferred    *)
(* from its scores.                                                        *)
(***************************************************************************)
C17_ExplicitOnly ==
  LoopDone =>
    \A x \in Objects :
      LabelMatches(x) # {} => CombinationsHeld(x) = LabelMatches(x)

(***************************************************************************)
(* C18: when a field name of the first record matches an identity pattern, *)
(* the identity field is the first field, in schema order, that matches    *)
(* the earliest pattern of the list that any field name matches; it is a   *)
(* function of the field names of the first record alone.                  *)
(***************************************************************************)
Identified == pc \in {"identified", "merged", "classified"}

MatchedPatterns(keys) ==
  {q \in 1..NumIdPatterns :
     \E p \in 1..Len(keys) : commonIdPatterns(q, keys[p])}

Least(S) == CHOOSE m \in S : \A n \in S : m <= n

C18_PatternPriority ==
  Identified =>
    LET keys == Keys(rawData[1])
        Q == MatchedPatterns(keys)
    IN  Q # {} =>
          idField = keys[Least({p \in 1..Len(keys) :
                                  commonIdPatterns(Least(Q), keys[p])})]

\* the second key wins over the first, which only a later pattern accepts;
\* the values of the chosen field are equal in the two records
C18_Witness ==
  /\ Identified
  /\ Keys(rawData[1]) = <<"code", "exam_no">>
  /\ idField = "exam_no"
  /\ Len(rawData) = 2
  /\ Get(rawData[1], "exam_no") = Get(rawData[2], "exam_no")
  /\ Get(rawData[1], "code") # Get(rawData[2], "code")

(***************************************************************************)
(* C19: when no field name of the first record matches an identity         *)
(* pattern, the identity field is the first field, in schema order, that   *)
(* every record holds, with values all strings or all numbers, pairwise    *)
(* different; when no field is such, it is the first field.                *)
(***************************************************************************)
Homogeneous(k) ==
  /\ \A r \in 1..Len(rawData) : Has(rawData[r], k)
  /\ \E type \in {"string", "number"} :
       \A r \in 1..Len(rawData) : TypeOf(Get(rawData[r], k)) = type
  /\ \A r, q \in 1..Len(rawData) :
       r # q => Get(rawData[r], k) # Get(rawData[q], k)

C19_ValueFallback ==
  Identified =>
    LET keys == Keys(rawData[1])
        good == {p \in 1..Len(keys) : Homogeneous(keys[p])}
    IN  MatchedPatterns(keys) = {} =>
          idField = IF good = {} THEN keys[1] ELSE keys[Least(good)]

(***************************************************************************)
(* C20: no subject is the identity field, a declared-total field, or a     *)
(* field the merge takes for a name, class or grade field.                 *)
(***************************************************************************)
C20_SubjectsExclude ==
  pc = "classified" =>
    \A q \in 1..Len(subjects) :
      /\ subjects[q] # idField
      /\ ~totalKeys(subjects[q])
      /\ ~namePattern(subjects[q])
      /\ ~classPattern(subjects[q])
      /\ ~gradePattern(subjects[q])

(***************************************************************************)
(* C21.  A record that lacks a subject field, or holds a value that is not *)
(* a number in it, counts 0 for that subject: in its computed total, and   *)
(* in the min and max of a rebasing subject.  It is kept, it has both      *)
(* totals and a rank in the cohort and in its class for every metric, and  *)
(* scoring and ranking raise no error.                                     *)
(***************************************************************************)
Lacks(x, s) == ~Has(heap[x], s) \/ Get(heap[x], s).t # "num"

C21_MissingCountsZero ==
  /\ Len(result) > 0 => Len(heap) = Len(rawData) /\ Len(result) = Len(rawData)
  /\ \A p \in 1..Len(logs) : logs[p] # "error: TypeError"
  /\ \A x \in Objects : \A s \in SubjectSet :
       Lacks(x, s) =>
         /\ s \in Small4Set => stats[s].min = CohortMin(s) /\ stats[s].max = CohortMax(s)
         /\ scored[x] >= 1 =>
              /\ Get(heap[x], "_rawTotal").t = "num"
              /\ Get(heap[x], "_assignedTotal").t = "num"
              /\ \/ Metric(x, "_rawTotal") = SumOver(x, SubjectSet \ {s}, "")
                 \/ /\ DeclaredTotal(x).t = "num"
                    /\ Metric(x, "_rawTotal") = DeclaredTotal(x).n
                    /\ Abs(DeclaredTotal(x).n - SumOver(x, SubjectSet \ {s}, "")) <= 2
         /\ LoopDone =>
              \A mp \in MetricPairs :
                /\ Get(heap[x], "yearRank" \o mp[2]).t = "num"
                /\ Get(heap[x], "classRank" \o mp[2]).t = "num"
                /\ Get(heap[x], "yearRank" \o mp[2]).n \in 1..Cardinality(Objects)
                /\ Get(heap[x], "classRank" \o mp[2]).n \in 1..Cardinality(ClassOf(x))

\* a finished run of three records: one lacks the rebasing subject, the
\* others hold 1 and 8 in it; min is 0, the record is ranked last in it, and
\* its total is that of its other subject
C21_Witness ==
  /\ pc = "returned"
  /\ Cardinality(Objects) = 3
  /\ \E x \in Objects :
       /\ ~Has(heap[x], "chemistry")
       /\ "chemistry" \in Small4Set
       /\ stats["chemistry"].min = 0
       /\ stats["chemistry"].max = 8
       /\ ~Has(heap[x], "total")
       /\ Get(heap[x], "_rawTotal") = Get(heap[x], "chinese")
       /\ Get(heap[x], "yearRank_chemistry") = Num(3)
       /\ Get(heap[x], "classRank_raw").t = "num"

(***************************************************************************)
(* C22.  The class of every merged record is the canonical form of its     *)
(* resolved class value: a string without bracket and white-space          *)
(* characters that is the sentinel or ends with the class suffix, whatever *)
(* the class field of the raw record is called.                            *)
(***************************************************************************)
\* the class value the merge resolves for record x: the first class field
\* of the raw record joined with its roster record
ResolvedClass(x) ==
  LET combined == Spread(rawData[x],
                         KbRowOf(kbData,
                                 IF Len(kbData) > 0 THEN inferIdField(kbData) ELSE "",
                                 StringOf(Get(rawData[x], idField))), 1)
      found == FindFirst(Keys(combined), classPattern, 1)
  IN  IF found = Undef THEN Undef ELSE Get(combined, found.s)

\* texts without bracket, white-space and trailing suffix characters: those
\* of the spellings, the digits of a number, the text of the sentinel
PlainTexts ==
  {Join(c) : c \in {d \in ClassSpellings :
                      /\ d # <<>>
                      /\ d[Len(d)] # "B"
                      /\ \A q \in 1..Len(d) :
                           ~IsBracket(d[q]) /\ ~IsWhitespace(d[q])}}
    \cup {"3", "unclassified"}

IsCanonical(v) ==
  /\ v.t = "str"
  /\ \/ v.s = "unclassified"
     \/ \E text \in PlainTexts : v.s = text \o "B"

C22_ClassCanonical ==
  Merged =>
    \A x \in Objects :
      /\ IsCanonical(Get(heap[x], "class"))
      /\ Truthy(ResolvedClass(x)) =>
           Get(heap[x], "class") = Str(normalizeClassName(ResolvedClass(x)))

(***************************************************************************)
(* C23.  A record for which neither the raw record nor the roster has a    *)
(* class value gets the sentinel normalizeClassName returns for an empty   *)
(* or unset input, so all records without a usable class have one class.   *)
(***************************************************************************)
C23_UnclassifiedSentinel ==
  Merged =>
    \A x \in Objects :
      ~Truthy(ResolvedClass(x)) =>
        /\ Get(heap[x], "class") = Str(normalizeClassName(Undef))
        /\ Get(heap[x], "class") = Str(normalizeClassName(Str("")))

(***************************************************************************)
(* C28.  Spellings of one class that differ by bracket characters, white   *)
(* space, a trailing class suffix or a leading grade-level token get one   *)
(* key: the inner text and one class suffix.  A grade-level token with no  *)
(* inner text after it is kept as the text; a spelling with neither gets   *)
(* the sentinel.                                                           *)
(***************************************************************************)
SpelledAs == [sp \in Spelling |-> Join(Render(sp))]

CanonicalKey == [sp \in Spelling |->
            IF sp.inner # <<>> THEN Join(Append(sp.inner, "B"))
            ELSE IF sp.grade # <<>> THEN Join(Append(sp.grade, "B"))
            ELSE "unclassified"]

C28_SpellingsCollapse ==
  Merged =>
    \A x \in {y \in Objects : Has(rawData[y], "bj")} : \A sp \in Spelling :
      (SpelledAs[sp] # "" /\ Get(rawData[x], "bj") = Str(SpelledAs[sp])) =>
        Get(heap[x], "class") = Str(CanonicalKey[sp])

\* "Gy(1)BJ" (grade-level token, brackets, two-character suffix) becomes
\* "1B"; " Gy B" in the same list keeps its token and becomes "GyB"
C28_Witness ==
  /\ Merged
  /\ \E x, y \in Objects :
       /\ Get(rawData[x], "bj") = Str("Gy(1)BJ")
       /\ Get(heap[x], "class") = Str("1B")
       /\ Get(rawData[y], "bj") = Str("Gy B")
       /\ Get(heap[y], "class") = Str("GyB")

(***************************************************************************)
(* C27.  Explicit label matching ignores order and delimiters: a label     *)
(* made of the letter codes of a definition in any order, with plus signs, *)
(* commas, white space or list separators between them, matches that       *)
(* definition and the record holds exactly it; a label whose remaining     *)
(* characters are another multiset matches no definition, and the record   *)
(* holds the combinations its scores give.                                 *)
(***************************************************************************)
DelimiterChars == {"+", ",", " ", ";", "'"}

\* how often character c stands in chars
Count(chars, c) == Cardinality({q \in 1..Len(chars) : chars[q] = c})

\* the label of record x, as the letters and the delimiter text it was
\* written with
WrittenAs(x, letters, d) ==
  Get(rawData[x], "combination") = Str(Join(Delimited(letters, d)))

SameMultiset(letters, d, combo) ==
  \A c \in {"W", "H", "S", "D", "Z", "L", "-"} :
    Count(Split(combo), c)
      = Count(letters, c)
          + (IF c \in DelimiterChars THEN 0
             ELSE (Len(letters) - 1) * Count(d, c))

C27_LabelMatching ==
  pc = "combined" =>
    \A x \in Objects : \A letters \in LetterTexts, d \in DelimiterTexts :
      WrittenAs(x, letters, d) =>
        LET matching == {combo \in AllowedSet : SameMultiset(letters, d, combo)}
        IN  /\ Get(heap[x], "_combinations").t = "arr"
            /\ CombinationsHeld(x)
                 = IF matching # {} THEN matching ELSE InferredSet(x)

\* the label "D, H, W" gives the combination WHD and no other, although
\* the scores of the record also give WHS
C27_Witness ==
  /\ pc = "combined"
  /\ \E x \in Objects :
       /\ Get(rawData[x], "combination") = Str("D, H, W")
       /\ CombinationsHeld(x) = {"WHD"}
       /\ "WHS" \in InferredSet(x)

(***************************************************************************)
(* C26.  No record has a rank before every record of the cohort, of every  *)
(* batch, has its rawTotal, its assignedTotal and the assigned value of    *)
(* every rebasing subject.                                                 *)
(***************************************************************************)
RankKeys ==
  UNION {{"yearRank" \o mp[2], "classRank" \o mp[2]} : mp \in MetricPairs}

AllScored ==
  \A y \in Objects :
    /\ scored[y] >= 1
    /\ Get(heap[y], "_rawTotal").t = "num"
    /\ Get(heap[y], "_assignedTotal").t = "num"
    /\ \A s \in Small4Set : Get(heap[y], "assigned_" \o s).t = "num"

C26_RanksAfterScoring ==
  (\E x \in Objects : \E k \in RankKeys : Has(heap[x], k)) => AllScored

\* three batches of one record each were scored, with a rebasing subject,
\* before the ranks were written
C26_Witness ==
  /\ pc = "awaitWrite"
  /\ Cardinality(Objects) = 3
  /\ idx >= 3 * CHUNK_SIZE
  /\ Small4Set # {}
  /\ AllScored
  /\ \A x \in Objects : \A k \in RankKeys : Has(heap[x], k)

(***************************************************************************)
(* C24.  A calcRanks call for one (scope, metric) pair writes only the     *)
(* rank field of that pair: the subject values, the totals, the assigned   *)
(* values and the rank fields already assigned for every other pair are    *)
(* the same after the call as before it, for every record, whatever the    *)
(* subjects are called.                                                    *)
(***************************************************************************)
ScopePrefix(call) == IF call.scope = 0 THEN "yearRank" ELSE "classRank"

SameField(x, k) == Get(heap'[x], k) = Get(heap[x], k)

CallFrame(call) ==
  \A x \in Objects :
    /\ \A s \in SubjectSet : SameField(x, s)
    /\ SameField(x, "_rawTotal") /\ SameField(x, "_assignedTotal")
    /\ \A s \in Small4Set : SameField(x, "assigned_" \o s)
    /\ \A prefix \in {"yearRank", "classRank"} : \A mp \in MetricPairs :
         (<<prefix, mp[1]>> # <<ScopePrefix(call), call.key>>
            /\ Has(heap[x], prefix \o mp[2]))
           => SameField(x, prefix \o mp[2])

C24_OwnRankFieldOnly ==
  [][(pending # <<>> /\ pending' = Tail(pending)) => CallFrame(Head(pending))]_vars

(***************************************************************************)
(* C30.  Within one run of process() the reported progress never           *)
(* decreases until the run ends; the finished stage is reported only with  *)
(* progress 100 and only when every record is scored, ranked and has its   *)
(* combinations; a failed run ends at progress 0.                          *)
(***************************************************************************)
C30_ProgressMonotone ==
  /\ \A q \in 2..Len(reported) :
       \/ reported[q] >= reported[q - 1]
       \/ q = Len(reported) /\ pc = "thrown" /\ reported[q] = 0
  /\ reported # <<>> => progress = reported[Len(reported)]
  /\ (stage = "done" \/ InSeq(reported, 100)) =>
       /\ stage = "done"
       /\ progress = 100
       /\ pc = "returned"
       /\ AllScored
       /\ \A x \in Objects :
            /\ \A k \in RankKeys : Get(heap[x], k).t = "num"
            /\ Get(heap[x], "_combinations").t = "arr"
  /\ pc = "thrown" => progress = 0 /\ stage = "error"

\* a finished run with a watermark: every progress value was reported
C30_Witness ==
  /\ pc = "returned"
  /\ stage = "done"
  /\ reported = <<0, 10, 20, 30, 40, 50, 70, 80, 95, 100>>
  /\ Cardinality(Objects) = 3

(***************************************************************************)
(* C29.  After reset() the processing state is idle (idle stage, progress  *)
(* 0, no log entries) and stays idle until process() is next called, also  *)
(* when reset() was called while a run was suspended.                      *)
(***************************************************************************)
Idle == stage = "idle" /\ progress = 0 /\ logs = <<>>

ProcessCalled == pc = "idle" /\ pc' = "awaitJson"

C29_ResetStaysIdle ==
  [][(Idle /\ ~ProcessCalled) => Idle']_vars

(***************************************************************************)
(* C25.  The yield between batches is not observable in the results: when  *)
(* another run of process() is interleaved at the suspension points, the   *)
(* totals, assigned values, combinations and ranks of each run are those   *)
(* of the run taken alone on its records.                                  *)
(***************************************************************************)
PastRanking(p) == p \in {"awaitWatermark", "awaitWrite", "returned", "thrown"}

C25_RunsIndependent ==
  /\ PastRanking(pc) => heap = RunFrom(rawData, InputOrder).heap
  /\ pc = "yield" => heap = FirstBatch(rawData).heap
  /\ PastRanking(other.pc) =>
       other.heap = RunFrom(other.rawData,
                            [r \in 1..Len(other.rawData) |-> r]).heap
  /\ other.pc = "yield" => other.heap = FirstBatch(other.rawData).heap

\* both runs have returned, on different records with a different min and
\* max of the rebased subject, and their assigned values differ
C25_Witness ==
  /\ pc = "returned"
  /\ other.pc = "returned"
  /\ rawData # other.rawData
  /\ small4 = <<"chemistry">>
  /\ other.small4 = <<"chemistry">>
  /\ stats # other.stats
  /\ \E x \in Objects :
       Get(heap[x], "assigned_chemistry")
         # Get(other.heap[x], "assigned_chemistry")

====
